---- MODULE Spec2Model ----
(***************************************************************************)
(* A model of the S3 virtual filesystem's lookup and caching engine:       *)
(*   - the glob matcher and the manifest path of findFiles                 *)
(*     (src/src/find-files.ts and its variant src/unnamed/part_000),       *)
(*   - the content cache S3FileCache (src/src/s3-file-cache.ts),           *)
(*   - the ripgrep-driven search grepWithRipgrep (src/src/grep-ripgrep.ts).*)
(*                                                                         *)
(* Strings are sequences of one-character strings, so that split, join,    *)
(* startsWith and glob matching are computed as the code computes them.    *)
(***************************************************************************)
EXTENDS Integers, Sequences, FiniteSets, TLC

(***************************************************************************)
(* Bounds of the model.                                                    *)
(***************************************************************************)
\* Longest manifest (number of keys) findFiles is run on.
MaxManifest == 3

\* Total number of cacheFile invocations in one behaviour (direct and batched).
MaxCalls == 4

\* Longest identifier list handed to cacheFiles.
MaxBatch == 3

\* Largest maxConcurrent handed to cacheFiles (10 by default in the source).
MaxWindow == 2

\* The clock runs from 0 to MaxTime.
MaxTime == 3

\* Longest output (in lines) of the search process.
MaxLines == 210

\* The page size of the remote listing (MaxKeys, 1000 in the source), scaled
\* down so that a listing takes several pages.
MaxKeys == 2

\* The cap grepFiles hands to findFiles (1000 in the source), scaled down so
\* that a bucket can hold more matching files than the cap.
MaxCandidates == 12

\* The cache bounds, scaled down from the source so that eviction happens:
\* MAX_CACHE_SIZE_BYTES is 2 GiB (s3-file-cache.ts:14) and MAX_CACHE_ENTRIES
\* is 10000 (s3-file-cache.ts:24). No single file is larger than the byte
\* bound (a JavaScript string cannot hold 2 GiB of UTF-8).
MAX_CACHE_SIZE_BYTES == 3
MAX_CACHE_ENTRIES == 2

(***************************************************************************)
(* String helpers (JavaScript String.prototype).                           *)
(***************************************************************************)
SLASH == "/"

\* s.startsWith(p)
StartsWith(s, p) ==
    /\ Len(p) <= Len(s)
    /\ SubSeq(s, 1, Len(p)) = p

\* s.endsWith(p)
EndsWith(s, p) ==
    /\ Len(p) <= Len(s)
    /\ SubSeq(s, Len(s) - Len(p) + 1, Len(s)) = p

\* s.includes(ch) for a single character ch
Includes(s, ch) == \E i \in 1..Len(s) : s[i] = ch

\* s.slice(n)
Slice(s, n) == SubSeq(s, n + 1, Len(s))

Range(f) == {f[i] : i \in DOMAIN f}

\* s.split('/') : the sequence of segments, empty segments kept.
RECURSIVE SplitAcc(_, _, _)
SplitAcc(s, cur, acc) ==
    IF s = <<>> THEN Append(acc, cur)
    ELSE IF Head(s) = SLASH THEN SplitAcc(Tail(s), <<>>, Append(acc, cur))
    ELSE SplitAcc(Tail(s), Append(cur, Head(s)), acc)

Split(s) == SplitAcc(s, <<>>, <<>>)

\* parts.join('/')
RECURSIVE Join(_)
Join(parts) ==
    IF parts = <<>> THEN <<>>
    ELSE IF Len(parts) = 1 THEN parts[1]
    ELSE parts[1] \o <<SLASH>> \o Join(Tail(parts))

\* arr.pop() of a non-empty array: its last element.
Last(seq) == seq[Len(seq)]

(***************************************************************************)
(* Pattern Matcher.                                                        *)
(***************************************************************************)
\* The test of find-files.ts:29 : the segment holds a glob character.
HasGlobChar(part) ==
    Includes(part, "*") \/ Includes(part, "?") \/ Includes(part, "[") \/ Includes(part, "{")

\* The loop of extractFixedPrefix: the leading parts without a glob character.
RECURSIVE FixedParts(_)
FixedParts(parts) ==
    IF parts = <<>> THEN <<>>
    ELSE IF HasGlobChar(Head(parts)) THEN <<>>
    ELSE <<Head(parts)>> \o FixedParts(Tail(parts))

extractFixedPrefix(pattern) ==
    LET fixedParts == FixedParts(Split(pattern))
    IN  IF Len(fixedParts) > 0 THEN Join(fixedParts) \o <<SLASH>> ELSE <<>>

\* One path segment against one pattern segment: '*' is any run of
\* characters, '?' is one character, anything else is itself.
RECURSIVE GlobSeg(_, _)
GlobSeg(s, p) ==
    IF p = <<>> THEN s = <<>>
    ELSE IF Head(p) = "*" THEN
        GlobSeg(s, Tail(p)) \/ (s # <<>> /\ GlobSeg(Tail(s), p))
    ELSE IF Head(p) = "?" THEN
        s # <<>> /\ GlobSeg(Tail(s), Tail(p))
    ELSE s # <<>> /\ Head(s) = Head(p) /\ GlobSeg(Tail(s), Tail(p))

\* minimatch compiles a segment with magic to a regular expression that
\* requires a non-empty segment; a literal segment is compared as a string.
SegMatch(seg, pseg) ==
    IF Includes(pseg, "*") \/ Includes(pseg, "?")
    THEN seg # <<>> /\ GlobSeg(seg, pseg)
    ELSE seg = pseg

GLOBSTAR == <<"*", "*">>

\* minimatch's matchOne over the split path and the split pattern
\* (option dot: true, so no segment is hidden).
RECURSIVE MatchOne(_, _)
MatchOne(file, pat) ==
    IF file = <<>> /\ pat = <<>> THEN TRUE
    ELSE IF file = <<>> THEN FALSE
    ELSE IF pat = <<>> THEN Len(file) = 1 /\ file[1] = <<>>
    ELSE IF Head(pat) = GLOBSTAR THEN
        IF Len(pat) = 1 THEN TRUE
        ELSE \E k \in 0..(Len(file) - 1) :
                MatchOne(SubSeq(file, k + 1, Len(file)), Tail(pat))
    ELSE SegMatch(Head(file), Head(pat)) /\ MatchOne(Tail(file), Tail(pat))

\* minimatch(path, pattern, { dot: true })
Minimatch(path, pattern) ==
    IF pattern = <<>> THEN path = <<>>
    ELSE MatchOne(Split(path), Split(pattern))

\* matchGlob(pattern, path)
matchGlob(pattern, path) == Minimatch(path, pattern)

(***************************************************************************)
(* Inputs of findFiles: object keys and glob patterns, as strings.        *)
(***************************************************************************)
K_a_b   == <<"a", "/", "b">>
K_a_c   == <<"a", "/", "c">>
K_b     == <<"b">>
K_a_b_c == <<"a", "/", "b", "/", "c">>
K_ab    == <<"a", "b">>
K_a_dir == <<"a", "/">>

Keys == {K_a_b, K_a_c, K_b, K_a_b_c, K_ab, K_a_dir}

P_a_b     == <<"a", "/", "b">>
P_b       == <<"b">>
P_a_star  == <<"a", "/", "*">>
P_a_q     == <<"a", "/", "?">>
P_gs_b    == <<"*", "*", "/", "b">>
P_gs_star == <<"*", "*", "/", "*">>
P_star    == <<"*">>
P_gs      == <<"*", "*">>
P_a_gs    == <<"a", "/", "*", "*">>
P_a_gs_c  == <<"a", "/", "*", "*", "/", "c">>
P_star_b  == <<"*", "/", "b">>

Patterns ==
    {P_a_b, P_b, P_a_star, P_a_q, P_gs_b, P_gs_star, P_star, P_gs, P_a_gs,
     P_a_gs_c, P_star_b}

\* The configured base prefix (S3Config.prefix): none, or "a/".
Prefixes == {<<>>, <<"a", "/">>}

\* maxResults?: number. UNDEFINED stands for an argument that is not supplied.
UNDEFINED == -1

\* `if (maxResults && ...)`: undefined and 0 are falsy.
Truthy(n) == n # UNDEFINED /\ n # 0

MaxResultsValues == {UNDEFINED, 0, 1, 2}

\* Manifests: sequences of distinct keys.
Manifests ==
    {m \in UNION {[1..n -> Keys] : n \in 0..MaxManifest} :
        \A i, j \in DOMAIN m : i # j => m[i] # m[j]}

(***************************************************************************)
(* State.                                                                  *)
(***************************************************************************)
VARIABLES
    \* findFiles (manifest path)
    pattern,        \* the glob pattern argument
    prefix,         \* options.prefix
    maxResults,     \* options.maxResults
    manifest,       \* options.manifest.files: the keys, in order
    shape,          \* what the elements of manifest.files are: "string" | "object"
    fastPath,       \* TRUE: src/src/find-files.ts, FALSE: src/unnamed/part_000
    fileIdx,        \* position of the for-of loop over manifest.files
    matched,        \* the result array being built
    listed,         \* remote-listing path: files
    listToken,      \* the number of keys the pages so far have returned
    listPc,         \* "off" | "page" | "done"
    listLog,        \* the list requests sent, each with the response it got
    findPc,         \* "off" | "loop" | "done" | "thrown"
    \* S3FileCache
    cache,          \* the LRUCache: entries, least recently used first
    currentSize,    \* S3FileCache.currentSize
    disk,           \* the local files under cacheDir: path -> file
    unlinking,      \* removeFile calls suspended at `await fs.unlink`: path -> count
    tasks,          \* the cacheFile invocations: slot -> [pc, uri, ret]
    calls,          \* history: the number of cacheFile invocations
    downloads,      \* history: the number of filesystem.readFile requests issued
    clearPc,        \* clear(): "idle" | "rm" (at `await fs.rm`) | "done"
    useOrder,       \* history: the resident identifiers by their latest use (set or
                    \* looked up), latest last
    \* S3FileCache.cacheFiles
    batchPc,        \* "idle" | "await" (at Promise.allSettled) | "returned"
    uris,           \* the uris argument
    maxConcurrent,  \* options.maxConcurrent
    batchI,         \* the loop variable i
    results,        \* the results map: uri -> local path
    aborted,        \* options.signal.aborted
    launchedAborted,\* history: a window was launched while the signal was set
    \* grepWithRipgrep
    grepPc,         \* "Idle" | "FindFiles" | "Caching" | "Searching"
    globFilter,     \* options.globFilter given
    matchingFiles,  \* what findFiles(globFilter, 1000) resolved with
    proc,           \* the ripgrep process: "none" | "running" | "killed" | "closed" | "error"
    timer,          \* the timeout: "unset" | "armed" | "fired" | "cleared"
    listening,      \* abortHandler is registered on the signal
    outcome,        \* the promise: "Pending" or how it settled
    firstEvent,     \* history: the first of close, timeout and abort
    abortPhase,     \* history: the phase in which the signal was aborted
    stdout,         \* history: the lines ripgrep printed
    output,         \* the array the promise resolved with
    \* S3FileSystem: the manifest store
    source,         \* the manifest file under .manifest: [kind, value]
    manifestCache,  \* S3FileSystem.manifestCache: [present, data, fetchedAt]
    directorySchema,\* S3FileSystem.directorySchema: [present, dirs]
    now,            \* Date.now()
    fetch,          \* the findFiles calls at fetchManifest: caller -> [pc, ret, mode]
    \* DirectorySchema.listDirectory
    dirFiles,       \* the keys of the manifest the schema is built from
    dirPath,        \* the path argument
    dirEntries,     \* the array returned
    dirPc,          \* "off" | "call" | "done"
    \* handleGrep and grepFiles (the in-process search)
    hgVariant,      \* "strict" (tools/grep.ts) | "fallback" (part_002, server.ts)
    hgCache,        \* fileCache: "none" | "empty" | "populated"
    hgPc,           \* "off" | "call" | "ripgrep" | "grepFiles" | "thrown" | "returned"
    objects,        \* the files the glob matches, in discovery order
    candidates,     \* filteredFiles
    gfIdx,          \* position of the for-of loop
    gfResults,      \* results: the candidate index of each line, 0 for a trailer line
    totalMatches,   \* totalMatches
    \* proc.on('close') of the search process
    closeCode,      \* the exitCode the handler received (EXIT_NULL before it ran)
    stderrText,     \* stderr when the process closed
    errorText,      \* the Error the promise was rejected with on close
    \* handleFilterMetadata
    fmArgs,         \* filters, limit and offset
    fmManifest,     \* what fetchManifest returned: [isNull, files]
    fmResults,      \* results
    fmDone,         \* the filter stages that have run
    fmPc,           \* "off" | "filter" | "returned" | "error"
    \* handleRead
    rdPath,         \* args.path: [given, scheme, bucket, key]
    rdSchema,       \* filesystem.directorySchema: [present, files]
    rdPc,           \* "off" | "call" | "reading" | "returned" | "thrown"
    rdResult,       \* the CallToolResult: [isError, kind, header, entries]
    \* the Grep request seen from the files: which files the search reads
    srKeys,         \* the keys of the bucket; every file holds one matching line
    srGlob,         \* args.glob: NoGlob or a pattern
    srResident,     \* the keys whose files are in the cache directory
    srPc,           \* "off" | "call" | "warming" | "spawned" | "done"
    srEngine,       \* "none" | "ripgrep" | "grepFiles"
    srStdout,       \* the lines the search process wrote
    srOutput,       \* results
    \* handleGlob
    glOffset,       \* args.offset (args.filePattern and args.limit are findFiles' arguments)
    glFiles,        \* files, as returned
    glCaching,      \* the files handed to fileCache.cacheFiles
    glPc,           \* "off" | "finding" | "returned"
    \* the cacheFiles calls of overlapping tool requests
    wuPc,           \* per request: "idle" | "await" | "returned"
    wuLeft,         \* per request: the identifiers after the current window
    wuFlight,       \* per request: the downloads of the current window in flight
    \* a read of a directory path on the manifest store
    drOutcome,      \* "none" | "noManifest" | "listing"
    drSource        \* the manifest file at the time of the read

findVars == <<pattern, prefix, maxResults, manifest, shape, fastPath, fileIdx, matched, findPc,
              listed, listToken, listPc, listLog>>

cacheVars == <<cache, currentSize, disk, unlinking, tasks, calls, downloads, clearPc,
               useOrder>>

batchVars == <<batchPc, uris, maxConcurrent, batchI, results, aborted, launchedAborted>>

grepVars == <<grepPc, globFilter, matchingFiles, proc, timer, listening, outcome, firstEvent, abortPhase,
              stdout, output>>

storeVars == <<source, manifestCache, directorySchema, now, fetch>>

dirVars == <<dirFiles, dirPath, dirEntries, dirPc>>

fallbackVars == <<hgVariant, hgCache, hgPc, objects, candidates, gfIdx, gfResults,
                  totalMatches>>

closeVars == <<closeCode, stderrText, errorText>>

filterVars == <<fmArgs, fmManifest, fmResults, fmDone, fmPc>>

readVars == <<rdPath, rdSchema, rdPc, rdResult>>

searchVars == <<srKeys, srGlob, srResident, srPc, srEngine, srStdout, srOutput>>

\* The request handlers modelled last.
globVars == <<glOffset, glFiles, glCaching, glPc>>

warmVars == <<wuPc, wuLeft, wuFlight>>

dirReadVars == <<drOutcome, drSource>>

extraVars == <<searchVars, globVars, warmVars, dirReadVars>>

toolVars == <<fallbackVars, closeVars, filterVars, readVars, extraVars>>

\* What the actions of the later handlers leave alone besides one another.
earlierVars == <<findVars, cacheVars, batchVars, grepVars, storeVars, dirVars, fallbackVars,
                 closeVars, filterVars, readVars>>

notSearchVars == <<earlierVars, globVars, warmVars, dirReadVars>>

notWarmVars == <<earlierVars, searchVars, globVars, dirReadVars>>

notDirReadVars == <<earlierVars, searchVars, globVars, warmVars>>

notGlobVars == <<cacheVars, batchVars, grepVars, storeVars, dirVars, fallbackVars, closeVars,
                 filterVars, readVars, searchVars, warmVars, dirReadVars>>

restVars == <<storeVars, dirVars, toolVars>>

\* The components modelled before the tool handlers.
coreVars == <<findVars, cacheVars, batchVars, grepVars, storeVars, dirVars>>

vars == <<findVars, cacheVars, batchVars, grepVars, restVars>>

\* What the cache's actions leave alone, and what findFiles' actions leave alone.
notCacheVars == <<findVars, grepVars, restVars>>
notFindVars == <<cacheVars, batchVars, grepVars, restVars>>

(***************************************************************************)
(* File Finder: the manifest path of findFiles.                            *)
(***************************************************************************)
\* S3FileSystem.s3KeyToURI: the identifier of a key is its path with the
\* configured prefix removed (the scheme and bucket are the same for all).
s3KeyToURI(key) ==
    IF StartsWith(key, prefix) THEN Slice(key, Len(prefix)) ELSE key

\* const fullPrefix = prefix ? `${prefix}${fixedPrefix}` : fixedPrefix
FullPrefix ==
    LET fixedPrefix == extractFixedPrefix(pattern)
    IN  IF prefix # <<>> THEN prefix \o fixedPrefix ELSE fixedPrefix

\* pattern.match(/^\*\*\/(.+)$/) and no '/' in the captured rest.
UseSimpleMatch ==
    /\ fastPath
    /\ Len(pattern) > 3
    /\ SubSeq(pattern, 1, 3) = <<"*", "*", "/">>
    /\ ~Includes(Slice(pattern, 3), SLASH)

\* The two shapes of manifest.files: key strings, or {key, ...} records.
Shapes == {"string", "object"}

\* The element of manifest.files that holds key k, as a JavaScript value.
Element(sh, k) ==
    IF sh = "string" THEN [type |-> "string", value |-> k]
    ELSE [type |-> "object", value |-> [key |-> k]]

\* What the loop calls `file`: the element itself in find-files.ts (line 77),
\* fileMetadata.key in part_000 (line 73), which is undefined on a string.
FileOf(e) ==
    IF fastPath THEN e
    ELSE IF e.type = "object" THEN [type |-> "string", value |-> e.value.key]
    ELSE [type |-> "undefined", value |-> <<>>]

\* file.startsWith, file.split and minimatch(file, ...) throw a TypeError
\* unless `file` is a string.
FileThrows(e) == FileOf(e).type # "string"

\* The body of the for-of loop for one manifest key: is it a match?
IsMatch(file) ==
    /\ (FullPrefix = <<>> \/ StartsWith(file, FullPrefix))
    /\ IF UseSimpleMatch
       THEN Minimatch(Last(Split(file)), Slice(pattern, 3))
       ELSE matchGlob(pattern, file)

FindInit ==
    /\ pattern \in Patterns
    /\ prefix \in Prefixes
    /\ maxResults \in MaxResultsValues
    /\ manifest \in Manifests
    /\ shape \in Shapes
    /\ fastPath \in BOOLEAN
    /\ fileIdx = 1
    /\ matched = <<>>
    /\ findPc = "loop"
    /\ listed = <<>>
    /\ listToken = 0
    /\ listPc = "page"
    /\ listLog = <<>>

\* One iteration of `for (const file of manifest.files)`.
FindStep ==
    /\ findPc = "loop"
    /\ fileIdx <= Len(manifest)
    /\ LET e == Element(shape, manifest[fileIdx])
           file == FileOf(e).value
           m2 == IF IsMatch(file) THEN Append(matched, s3KeyToURI(file)) ELSE matched
       IN  IF FileThrows(e)
           THEN /\ findPc' = "thrown"
                /\ UNCHANGED <<matched, fileIdx>>
           ELSE /\ matched' = m2
                /\ findPc' = IF IsMatch(file) /\ Truthy(maxResults) /\ Len(m2) >= maxResults
                             THEN "done" ELSE "loop"
                /\ fileIdx' = fileIdx + 1
    /\ UNCHANGED <<pattern, prefix, maxResults, manifest, shape, fastPath, listed, listToken, listPc,
                   listLog, notFindVars>>

\* The manifest is exhausted: return matched.
FindReturn ==
    /\ findPc = "loop"
    /\ fileIdx > Len(manifest)
    /\ findPc' = "done"
    /\ UNCHANGED <<pattern, prefix, maxResults, manifest, shape, fastPath, fileIdx, matched, listed,
                   listToken, listPc, listLog, notFindVars>>

FindNext == FindStep \/ FindReturn

\* findFiles is not running (the other components are being exercised).
FindOff ==
    /\ pattern = <<>>
    /\ prefix = <<>>
    /\ maxResults = UNDEFINED
    /\ manifest = <<>>
    /\ shape = "object"
    /\ fastPath = FALSE
    /\ fileIdx = 1
    /\ matched = <<>>
    /\ findPc = "off"
    /\ listed = <<>>
    /\ listToken = 0
    /\ listPc = "off"
    /\ listLog = <<>>


(***************************************************************************)
(* The remote store and the local disk.                                    *)
(***************************************************************************)
\* The objects of the bucket, by identifier. "gone" has no object behind
\* it: every download of it fails.
Ids == {"a.txt", "b.gz", "e.txt", "gone"}

\* The gzip container: a two-byte magic number, then the payload.
Gzip(payload) == <<31, 139>> \o payload

\* The bytes stored in the bucket. Objects are immutable once written.
RemoteBody(id) ==
    CASE id = "a.txt" -> <<104>>
      [] id = "b.gz"  -> Gzip(<<104, 105>>)
      [] id = "e.txt" -> <<>>
      [] OTHER        -> <<>>

RemoteExists(id) == id # "gone"

\* key.endsWith('.gz')
IsGzip(id) == id = "b.gz"

\* createGunzip(): the payload of a gzip container.
Gunzip(raw) == IF StartsWith(raw, <<31, 139>>) THEN Slice(raw, 2) ELSE raw

\* Buffer.toString('utf-8'): a byte below 128 is its character, any other
\* byte of these objects is malformed and decodes to U+FFFD.
RECURSIVE Utf8Decode(_)
Utf8Decode(bytes) ==
    IF bytes = <<>> THEN <<>>
    ELSE <<IF Head(bytes) < 128 THEN Head(bytes) ELSE 65533>> \o Utf8Decode(Tail(bytes))

\* fs.writeFile(path, content, 'utf8'): the bytes of a string.
RECURSIVE Utf8Encode(_)
Utf8Encode(text) ==
    IF text = <<>> THEN <<>>
    ELSE (IF Head(text) < 128 THEN <<Head(text)>> ELSE <<239, 191, 189>>)
            \o Utf8Encode(Tail(text))

\* S3FileSystem.readFile: the text of the object, decompressed by extension.
readFile(id) ==
    Utf8Decode(IF IsGzip(id) THEN Gunzip(RemoteBody(id)) ELSE RemoteBody(id))

\* S3FileCache.getLocalPath: cacheDir/bucket/key.
getLocalPath(uri) == <<"cacheDir", uri>>

LocalPaths == {getLocalPath(id) : id \in Ids}

NoFile == [exists |-> FALSE, data |-> <<>>]

NULL == <<>>

(***************************************************************************)
(* LRUCache (lru-cache), as S3FileCache's constructor configures it.       *)
(***************************************************************************)
Max(a, b) == IF a >= b THEN a ELSE b

\* sizeCalculation: (entry) => Math.max(1, entry.size || 0)
sizeCalculation(entry) == Max(1, entry.size)

RECURSIVE CalculatedSize(_)
CalculatedSize(c) ==
    IF c = <<>> THEN 0 ELSE sizeCalculation(Head(c)) + CalculatedSize(Tail(c))

\* The position of key k in the cache, 0 when absent.
IndexOf(c, k) ==
    IF \E i \in 1..Len(c) : c[i].uri = k
    THEN CHOOSE i \in 1..Len(c) : c[i].uri = k
    ELSE 0

Has(c, k) == IndexOf(c, k) # 0

Without(c, i) == SubSeq(c, 1, i - 1) \o SubSeq(c, i + 1, Len(c))

\* Mutant of LruGet: a lookup leaves the recency order alone.
LruGet_noRefresh(c, k) == c

\* cache.get(k): the entry becomes the most recently used one.
LruGet(c, k) ==
    LET i == IndexOf(c, k)
    IN  IF i = 0 THEN c ELSE Append(Without(c, i), c[i])

\* #addItemSize: evict from the least recently used end while the entries
\* already counted leave no room for `size`. Returns the entries kept (the
\* new entry is not among `older`) and the entries evicted.
RECURSIVE EvictForSize(_, _, _)
EvictForSize(older, size, evicted) ==
    IF older # <<>> /\ CalculatedSize(older) > MAX_CACHE_SIZE_BYTES - size
    THEN EvictForSize(Tail(older), size, Append(evicted, Head(older)))
    ELSE [kept |-> older, evicted |-> evicted]

\* cache.set(k, v): [cache |-> the entries afterwards, disposed |-> the
\* entries handed to the dispose callback].
LruSet(c, k, v) ==
    LET size == sizeCalculation(v)
        i == IndexOf(c, k)
    IN  IF size > MAX_CACHE_SIZE_BYTES
        THEN \* maxEntrySize: the value is not stored, an old one is deleted
             IF i = 0 THEN [cache |-> c, disposed |-> <<>>]
             ELSE [cache |-> Without(c, i), disposed |-> <<c[i]>>]
        ELSE IF i = 0
        THEN LET full == Len(c) = MAX_CACHE_ENTRIES
                 c1 == IF full THEN Tail(c) ELSE c
                 d1 == IF full THEN <<Head(c)>> ELSE <<>>
                 r == EvictForSize(c1, size, <<>>)
             IN  [cache |-> Append(r.kept, v), disposed |-> d1 \o r.evicted]
        ELSE LET r == EvictForSize(Without(c, i), size, <<>>)
             IN  [cache |-> Append(r.kept, v), disposed |-> <<c[i]>> \o r.evicted]

(***************************************************************************)
(* S3FileCache.                                                            *)
(***************************************************************************)
\* dispose -> removeFile(entry): runs up to `await fs.unlink(entry.localPath)`.
RECURSIVE StartUnlinks(_, _)
StartUnlinks(u, disposed) ==
    IF disposed = <<>> THEN u
    ELSE StartUnlinks([u EXCEPT ![Head(disposed).localPath] = @ + 1], Tail(disposed))

\* The size recorded in the entry of a path (the stat size of its file).
EntrySize(path) ==
    LET id == CHOOSE x \in Ids : getLocalPath(x) = path
    IN  Len(Utf8Encode(readFile(id)))

RECURSIVE SumSizes(_)
SumSizes(c) == IF c = <<>> THEN 0 ELSE Head(c).size + SumSizes(Tail(c))

IdleTask == [pc |-> "idle", uri |-> "", ret |-> NULL]

\* The history of uses after one more use of uri.
Touch(order, uri) == SelectSeq(order, LAMBDA u : u # uri) \o <<uri>>

\* The history of uses restricted to the entries of index c.
Resident(order, c) == SelectSeq(order, LAMBDA u : Has(c, u))

\* Mutant of CacheFileBegin: the lookup is skipped, every call downloads.
CacheFileBegin_alwaysDownload(st, t, uri) ==
    [st EXCEPT !.tasks[t] = [pc |-> "download", uri |-> uri, ret |-> NULL],
               !.calls = @ + 1,
               !.downloads = @ + 1]

\* Mutant of CacheFileBegin: a miss records the entry before the download.
CacheFileBegin_recordFirst(st, t, uri) ==
    LET i == IndexOf(st.cache, uri)
    IN  IF i # 0
        THEN [st EXCEPT !.cache = LruGet(@, uri),
                        !.useOrder = Touch(@, uri),
                        !.tasks[t] = [pc |-> "done", uri |-> uri,
                                      ret |-> st.cache[i].localPath],
                        !.calls = @ + 1]
        ELSE [st EXCEPT !.cache = Append(@, [localPath |-> getLocalPath(uri), size |-> 0,
                                             uri |-> uri]),
                        !.tasks[t] = [pc |-> "download", uri |-> uri, ret |-> NULL],
                        !.calls = @ + 1,
                        !.downloads = @ + 1]

\* The synchronous head of cacheFile(uri) in slot t, lines 95-109, applied to
\* st = [cache, tasks, calls, downloads]: a hit returns the entry's path and
\* refreshes its recency, a miss issues the download.
CacheFileBegin(st, t, uri) ==
    LET i == IndexOf(st.cache, uri)
    IN  IF i # 0
        THEN [st EXCEPT !.cache = LruGet(@, uri),
                        !.useOrder = Touch(@, uri),
                        !.tasks[t] = [pc |-> "done", uri |-> uri,
                                      ret |-> st.cache[i].localPath],
                        !.calls = @ + 1]
        ELSE [st EXCEPT !.tasks[t] = [pc |-> "download", uri |-> uri, ret |-> NULL],
                        !.calls = @ + 1,
                        !.downloads = @ + 1]

CacheState ==
    [cache |-> cache, tasks |-> tasks, calls |-> calls, downloads |-> downloads,
     useOrder |-> useOrder]

\* The slots of the calls of a window (one per window position), and the
\* slots of two callers that invoke cacheFile on their own.
BatchTasks == 1..MaxWindow
DirectTasks == {MaxWindow + 1, MaxWindow + 2}
TaskIds == BatchTasks \cup DirectTasks

CacheInit ==
    /\ cache = <<>>
    /\ currentSize = 0
    /\ disk = [p \in LocalPaths |-> NoFile]
    /\ unlinking = [p \in LocalPaths |-> 0]
    /\ tasks = [t \in TaskIds |-> IdleTask]
    /\ calls = 0
    /\ downloads = 0
    /\ clearPc = "idle"
    /\ useOrder = <<>>

\* A caller invokes cacheFile(uri) on its own (not through cacheFiles).
CacheFileCall(t, uri) ==
    /\ tasks[t].pc = "idle"
    /\ calls < MaxCalls
    /\ LET st == CacheFileBegin(CacheState, t, uri)
       IN  /\ cache' = st.cache
           /\ useOrder' = st.useOrder
           /\ tasks' = st.tasks
           /\ calls' = st.calls
           /\ downloads' = st.downloads
    /\ UNCHANGED <<currentSize, disk, unlinking, clearPc, batchVars, notCacheVars>>

\* `await this.filesystem.readFile(uriString)` rejects (no such object):
\* cacheFile logs and rethrows.
DownloadFails(t) ==
    /\ tasks[t].pc = "download"
    /\ ~RemoteExists(tasks[t].uri)
    /\ tasks' = [tasks EXCEPT ![t].pc = "failed"]
    /\ UNCHANGED <<cache, useOrder, currentSize, disk, unlinking, calls, downloads, clearPc, batchVars, notCacheVars>>

\* The text arrives, and `await fs.mkdir` and `await fs.writeFile(localPath,
\* content, 'utf8')` settle: the file holds the text, or the write fails and
\* cacheFile rethrows.
WriteSettles(t, ok) ==
    /\ tasks[t].pc = "download"
    /\ RemoteExists(tasks[t].uri)
    /\ IF ok
       THEN /\ disk' = [disk EXCEPT ![getLocalPath(tasks[t].uri)] =
                            [exists |-> TRUE, data |-> Utf8Encode(readFile(tasks[t].uri))]]
            /\ tasks' = [tasks EXCEPT ![t].pc = "stat"]
       ELSE /\ disk' = disk
            /\ tasks' = [tasks EXCEPT ![t].pc = "failed"]
    /\ UNCHANGED <<cache, useOrder, currentSize, unlinking, calls, downloads, clearPc, batchVars, notCacheVars>>

\* `await fs.stat(localPath)` settles and lines 120-133 run: the entry is
\* set, currentSize grows, the path is returned. A file removed in the
\* meantime makes stat fail.
StatAndSet(t) ==
    /\ tasks[t].pc = "stat"
    /\ LET localPath == getLocalPath(tasks[t].uri)
       IN  IF ~disk[localPath].exists
           THEN /\ tasks' = [tasks EXCEPT ![t].pc = "failed"]
                /\ UNCHANGED <<cache, useOrder, currentSize, unlinking>>
           ELSE LET actualSize == Len(disk[localPath].data)
                    entry == [localPath |-> localPath, size |-> actualSize,
                              uri |-> tasks[t].uri]
                    r == LruSet(cache, tasks[t].uri, entry)
                IN  /\ cache' = r.cache
                    /\ useOrder' = Resident(Touch(useOrder, tasks[t].uri), r.cache)
                    /\ unlinking' = StartUnlinks(unlinking, r.disposed)
                    /\ currentSize' = currentSize + actualSize
                    /\ tasks' = [tasks EXCEPT ![t].pc = "done", ![t].ret = localPath]
    /\ UNCHANGED <<disk, calls, downloads, clearPc, batchVars, notCacheVars>>

\* A direct caller takes the result (or the error) of its cacheFile.
CacheFileReturn(t) ==
    /\ tasks[t].pc \in {"done", "failed"}
    /\ tasks' = [tasks EXCEPT ![t] = IdleTask]
    /\ UNCHANGED <<cache, useOrder, currentSize, disk, unlinking, calls, downloads, clearPc, batchVars, notCacheVars>>

\* removeFile resumes after `await fs.unlink(entry.localPath)`: on success
\* currentSize shrinks by entry.size, on failure a warning is logged.
UnlinkSettles(path, ok) ==
    /\ unlinking[path] > 0
    /\ unlinking' = [unlinking EXCEPT ![path] = @ - 1]
    /\ IF ok /\ disk[path].exists
       THEN /\ disk' = [disk EXCEPT ![path] = NoFile]
            /\ currentSize' = currentSize - EntrySize(path)
       ELSE UNCHANGED <<disk, currentSize>>
    /\ UNCHANGED <<cache, useOrder, tasks, calls, downloads, clearPc, batchVars, notCacheVars>>

\* getCachedPath(uri): a lookup that refreshes recency.
GetCachedPath(uri) ==
    /\ Has(cache, uri)
    /\ cache' = LruGet(cache, uri)
    /\ useOrder' = Touch(useOrder, uri)
    /\ UNCHANGED <<currentSize, disk, unlinking, tasks, calls, downloads, clearPc, batchVars, notCacheVars>>

\* What getCachedPath(uri) returns in the current state.
getCachedPath(uri) ==
    IF Has(cache, uri) THEN cache[IndexOf(cache, uri)].localPath ELSE NULL

\* getStats(): the entry count and the resident byte count it reports.
getStats == [entries |-> Len(cache), sizeBytes |-> currentSize,
             maxSizeBytes |-> MAX_CACHE_SIZE_BYTES]

\* clear(), up to `await fs.rm`: every entry is disposed, currentSize is reset.
ClearCall ==
    /\ clearPc = "idle"
    /\ cache' = <<>>
    /\ useOrder' = <<>>
    /\ unlinking' = StartUnlinks(unlinking, cache)
    /\ currentSize' = 0
    /\ clearPc' = "rm"
    /\ UNCHANGED <<disk, tasks, calls, downloads, batchVars, notCacheVars>>

\* `await fs.rm(cacheDir, { recursive: true, force: true })` and the mkdir settle.
ClearRmSettles ==
    /\ clearPc = "rm"
    /\ disk' = [p \in LocalPaths |-> NoFile]
    /\ clearPc' = "done"
    /\ UNCHANGED <<cache, useOrder, currentSize, unlinking, tasks, calls, downloads, batchVars, notCacheVars>>

(***************************************************************************)
(* S3FileCache.cacheFiles.                                                 *)
(***************************************************************************)
Min(a, b) == IF a <= b THEN a ELSE b

\* Mutant of Window: the slice is one element too wide.
Window_oneMore(us, i, mc) == SubSeq(us, i + 1, Min(i + mc + 1, Len(us)))

\* uris.slice(i, i + maxConcurrent)
Window(us, i, mc) == SubSeq(us, i + 1, Min(i + mc, Len(us)))

\* batch.map((uri) => this.cacheFile(uri, options)): the calls of one window
\* start one after the other, window position j in slot j.
RECURSIVE LaunchFrom(_, _, _)
LaunchFrom(st, batch, j) ==
    IF j > Len(batch) THEN st
    ELSE LaunchFrom(CacheFileBegin(st, j, batch[j]), batch, j + 1)

Launch(st, batch) == LaunchFrom(st, batch, 1)

\* The loop over batchResults, lines 156-162: a fulfilled call is entered
\* in the map, a rejected one is logged.
RECURSIVE Collect(_, _, _)
Collect(res, ts, j) ==
    IF j > MaxWindow \/ ts[j].pc = "idle" THEN res
    ELSE Collect(IF ts[j].pc = "done" THEN (ts[j].uri :> ts[j].ret) @@ res ELSE res,
                 ts, j + 1)

EmptyMap == [u \in {} |-> NULL]

UriLists == UNION {[1..n -> Ids] : n \in 0..MaxBatch}

BatchInit ==
    /\ batchPc = "idle"
    /\ uris = <<>>
    /\ maxConcurrent = 1
    /\ batchI = 0
    /\ results = EmptyMap
    /\ aborted = FALSE
    /\ launchedAborted = FALSE

\* cacheFiles(uris, { signal, maxConcurrent }) up to its first suspension,
\* entered with the index c0: the first window is launched, or the empty
\* map is returned.
CacheFilesBegin(c0, o0, us, mc) ==
    /\ batchPc = "idle"
    /\ calls + Len(us) <= MaxCalls
    /\ uris' = us
    /\ maxConcurrent' = mc
    /\ batchI' = 0
    /\ results' = EmptyMap
    /\ IF Len(us) = 0
       THEN /\ batchPc' = "returned"
            /\ cache' = c0
            /\ useOrder' = o0
            /\ UNCHANGED <<tasks, calls, downloads, launchedAborted>>
       ELSE LET st == Launch([CacheState EXCEPT !.cache = c0, !.useOrder = o0],
                             Window(us, 0, mc))
            IN  /\ batchPc' = "await"
                /\ cache' = st.cache
                /\ useOrder' = st.useOrder
                /\ tasks' = st.tasks
                /\ calls' = st.calls
                /\ downloads' = st.downloads
                /\ launchedAborted' = (launchedAborted \/ aborted)
    /\ UNCHANGED <<currentSize, disk, unlinking, clearPc, aborted>>

\* A caller invokes cacheFiles.
CacheFilesCall(us, mc) ==
    /\ CacheFilesBegin(cache, useOrder, us, mc)
    /\ UNCHANGED notCacheVars

\* Promise.allSettled of the current window settles: the results are
\* collected, the signal is checked, the next window is launched.
WindowSettled ==
    /\ batchPc = "await"
    /\ \A j \in 1..Len(Window(uris, batchI, maxConcurrent)) :
            tasks[j].pc \in {"done", "failed"}
    /\ LET cleared == [t \in TaskIds |->
                          IF t \in BatchTasks THEN IdleTask ELSE tasks[t]]
           i2 == batchI + maxConcurrent
       IN  /\ results' = Collect(results, tasks, 1)
           /\ IF aborted \/ i2 >= Len(uris)
              THEN /\ batchPc' = "returned"
                   /\ tasks' = cleared
                   /\ UNCHANGED <<cache, useOrder, calls, downloads, batchI, launchedAborted>>
              ELSE LET st == Launch([CacheState EXCEPT !.tasks = cleared],
                                    Window(uris, i2, maxConcurrent))
                   IN  /\ batchPc' = "await"
                       /\ batchI' = i2
                       /\ cache' = st.cache
                       /\ useOrder' = st.useOrder
                       /\ tasks' = st.tasks
                       /\ calls' = st.calls
                       /\ downloads' = st.downloads
                       /\ launchedAborted' = (launchedAborted \/ aborted)
    /\ UNCHANGED <<currentSize, disk, unlinking, clearPc, uris, maxConcurrent, aborted,
                   notCacheVars>>

\* The owner of the signal aborts it (before or during the call).
Abort ==
    /\ ~aborted
    /\ batchPc # "returned"
    /\ aborted' = TRUE
    /\ UNCHANGED <<cacheVars, batchPc, uris, maxConcurrent, batchI, results,
                   launchedAborted, notCacheVars>>

\* The steps of a cacheFile invocation after its call, and of removeFile.
TaskNext ==
    \/ \E t \in TaskIds : DownloadFails(t)
    \/ \E t \in TaskIds, ok \in BOOLEAN : WriteSettles(t, ok)
    \/ \E t \in TaskIds : StatAndSet(t)
    \/ \E path \in LocalPaths, ok \in BOOLEAN : UnlinkSettles(path, ok)

(***************************************************************************)
(* grepWithRipgrep.                                                        *)
(***************************************************************************)
GREP_MAX_TOTAL_RESULTS == 100

\* The two lines pushed after the matches, lines 160-168.
TRAILER == <<[file |-> 0, ext |-> "Results truncated", line |-> 1],
             [file |-> 0, ext |-> "To see more results", line |-> 2]>>

GREP_MAX_RESULTS_PER_FILE == 10

\* An output of ripgrep: n lines, --max-count lines per file. With mixed,
\* every second file is one the glob filter rejects (ripgrep searches the
\* whole cache directory, whatever the filter).
StdoutOf(n, mixed) ==
    [k \in 1..n |->
        LET f == ((k - 1) \div GREP_MAX_RESULTS_PER_FILE) + 1
        IN  [file |-> f,
             ext |-> IF mixed /\ f % 2 = 0 THEN "md" ELSE "ts",
             line |-> ((k - 1) % GREP_MAX_RESULTS_PER_FILE) + 1]]

LineCounts == {0, 1, GREP_MAX_TOTAL_RESULTS - 1, GREP_MAX_TOTAL_RESULTS,
               GREP_MAX_TOTAL_RESULTS + 1, 2 * GREP_MAX_TOTAL_RESULTS, MaxLines}

Stdouts == {StdoutOf(n, mixed) : n \in LineCounts, mixed \in BOOLEAN}

\* matchesGlobPattern(filename) of line 149, for the filter "**/*.ts".
GlobAccepts(l) == l.ext = "ts"

\* The filter of lines 143-154: a line is kept when no glob filter is
\* given or its file name passes it (empty lines are never in StdoutOf).
KeepLine(l, glob) == ~glob \/ GlobAccepts(l)

FilterLines(lines, glob) == SelectSeq(lines, LAMBDA l : KeepLine(l, glob))

\* Lines 140-169: filter, slice(0, GREP_MAX_TOTAL_RESULTS), trailer.
ParseResults(lines, glob) ==
    LET matches == SubSeq(FilterLines(lines, glob), 1,
                          Min(Len(FilterLines(lines, glob)), GREP_MAX_TOTAL_RESULTS))
    IN  IF Len(matches) >= GREP_MAX_TOTAL_RESULTS THEN matches \o TRAILER ELSE matches

\* resolve(...) / reject(...) of the promise of line 92: the first call
\* settles it, the later ones do nothing.
Settle(o) == IF outcome = "Pending" THEN o ELSE outcome

\* The first of the events is remembered.
NoteEvent(e) == IF firstEvent = "none" THEN e ELSE firstEvent

GrepOff ==
    /\ grepPc = "Idle"
    /\ globFilter = FALSE
    /\ matchingFiles = <<>>
    /\ proc = "none"
    /\ timer = "unset"
    /\ listening = FALSE
    /\ outcome = "Pending"
    /\ firstEvent = "none"
    /\ abortPhase = "none"
    /\ stdout = <<>>
    /\ output = <<>>

\* Lines 92-120: spawn ripgrep, register abortHandler, arm the timeout.
SpawnEffect ==
    /\ grepPc' = "Searching"
    /\ proc' = "running"
    /\ listening' = TRUE
    /\ timer' = "armed"

\* grepWithRipgrep is called: with a glob filter it awaits findFiles,
\* without one it spawns ripgrep at once.
GrepCall(glob) ==
    /\ grepPc = "Idle"
    /\ outcome = "Pending"
    /\ proc = "none"
    /\ globFilter' = glob
    /\ IF glob
       THEN /\ grepPc' = "FindFiles"
            /\ UNCHANGED <<proc, listening, timer>>
       ELSE SpawnEffect
    /\ UNCHANGED <<matchingFiles, outcome, firstEvent, abortPhase, stdout, output, findVars,
                   restVars, cacheVars, batchVars>>

\* cache.getCachedPath(uri) for each matching file, in order: the index afterwards.
RECURSIVE TouchAll(_, _)
TouchAll(c, files) ==
    IF files = <<>> THEN c ELSE TouchAll(LruGet(c, Head(files)), Tail(files))

\* The history of uses after the same lookups: only a lookup that finds its
\* entry is a use.
RECURSIVE TouchAllOrder(_, _, _)
TouchAllOrder(o, c, files) ==
    IF files = <<>> THEN o
    ELSE TouchAllOrder(IF Has(c, Head(files)) THEN Touch(o, Head(files)) ELSE o,
                       c, Tail(files))

\* matchingFiles.filter((uri) => !cache.getCachedPath(uri))
RECURSIVE Uncached(_, _)
Uncached(c, files) ==
    IF files = <<>> THEN <<>>
    ELSE IF Has(c, Head(files)) THEN Uncached(c, Tail(files))
    ELSE <<Head(files)>> \o Uncached(c, Tail(files))

\* The lists findFiles can return: distinct identifiers.
FileLists == {us \in UriLists : \A i, j \in DOMAIN us : i # j => us[i] # us[j]}

\* `await filesystem.findFiles(globFilter, 1000)` settles with matchingFiles:
\* the uncached ones are handed to cacheFiles (maxConcurrent: 10, scaled to
\* MaxWindow), or ripgrep is spawned when there are none.
GrepFilesFound(found) ==
    /\ grepPc = "FindFiles"
    /\ matchingFiles' = found
    /\ LET uncachedFiles == Uncached(cache, found)
           touched == TouchAll(cache, found)
           touchedOrder == TouchAllOrder(useOrder, cache, found)
       IN  IF Len(uncachedFiles) > 0
           THEN /\ CacheFilesBegin(touched, touchedOrder, uncachedFiles, MaxWindow)
                /\ grepPc' = "Caching"
                /\ UNCHANGED <<proc, listening, timer>>
           ELSE /\ cache' = touched
                /\ useOrder' = touchedOrder
                /\ SpawnEffect
                /\ UNCHANGED <<currentSize, disk, unlinking, tasks, calls, downloads,
                               clearPc, batchVars>>
    /\ UNCHANGED <<globFilter, outcome, firstEvent, abortPhase, stdout, output, findVars, restVars>>

\* `await cache.cacheFiles(...)` settles: ripgrep is spawned.
GrepCachingDone ==
    /\ grepPc = "Caching"
    /\ batchPc = "returned"
    /\ SpawnEffect
    /\ UNCHANGED <<globFilter, matchingFiles, outcome, firstEvent, abortPhase, stdout, output, findVars, restVars,
                   cacheVars, batchVars>>

\* The exitCode of a process ended by a signal (proc.kill()) is null.
EXIT_NULL == -1

NoError == [code |-> EXIT_NULL, stderr |-> ""]

\* Nothing has closed yet.
CloseOff ==
    /\ closeCode = EXIT_NULL
    /\ stderrText = ""
    /\ errorText = NoError

\* Mutant of IsFailureCode: exit code 1 is taken for a failure too.
IsFailureCode_fromOne(exitCode) == exitCode # EXIT_NULL /\ exitCode >= 1

\* Line 130: `exitCode !== null && exitCode >= 2`.
IsFailureCode(exitCode) == exitCode # EXIT_NULL /\ exitCode >= 2

\* What ripgrep writes for an exit code: matches with 0, nothing with 1
\* (no match), anything with an error code.
Plausible(exitCode, lines) ==
    /\ exitCode = 0 => lines # <<>>
    /\ exitCode = 1 => lines = <<>>

\* proc.on('close'), lines 122-172. A killed process closes with exit
\* code null, which the handler treats like 0 or 1.
ProcCloses(exitCode, lines, err) ==
    /\ grepPc = "Searching"
    /\ proc \in {"running", "killed"}
    /\ proc = "killed" => (exitCode = EXIT_NULL /\ lines = <<>>)
    /\ proc = "running" => (exitCode # EXIT_NULL /\ Plausible(exitCode, lines))
    /\ proc' = "closed"
    /\ timer' = IF timer = "armed" THEN "cleared" ELSE timer
    /\ listening' = FALSE
    /\ firstEvent' = NoteEvent(IF IsFailureCode(exitCode) THEN "closeError" ELSE "close")
    /\ outcome' = Settle(IF IsFailureCode(exitCode) THEN "Failed" ELSE "Completed")
    /\ closeCode' = exitCode
    /\ stderrText' = err
    /\ errorText' = IF outcome = "Pending" /\ IsFailureCode(exitCode)
                    THEN [code |-> exitCode, stderr |-> err] ELSE errorText
    /\ IF outcome = "Pending" /\ ~IsFailureCode(exitCode)
       THEN /\ stdout' = lines
            /\ output' = ParseResults(lines, globFilter)
       ELSE UNCHANGED <<stdout, output>>
    /\ UNCHANGED <<grepPc, globFilter, matchingFiles, abortPhase, findVars, storeVars, dirVars, fallbackVars,
                   filterVars, readVars, extraVars, cacheVars, batchVars>>

\* proc.on('error'), lines 174-178: ripgrep could not be spawned.
ProcError ==
    /\ grepPc = "Searching"
    /\ proc = "running"
    /\ proc' = "error"
    /\ timer' = IF timer = "armed" THEN "cleared" ELSE timer
    /\ listening' = FALSE
    /\ firstEvent' = NoteEvent("closeError")
    /\ outcome' = Settle("Failed")
    /\ UNCHANGED <<grepPc, globFilter, matchingFiles, abortPhase, stdout, output, findVars, restVars, cacheVars,
                   batchVars>>

\* The setTimeout callback, lines 117-120: kill ripgrep, reject.
TimeoutFires ==
    /\ grepPc = "Searching"
    /\ timer = "armed"
    /\ timer' = "fired"
    /\ proc' = IF proc = "running" THEN "killed" ELSE proc
    /\ firstEvent' = NoteEvent("timeout")
    /\ outcome' = Settle("TimedOut")
    /\ UNCHANGED <<grepPc, globFilter, matchingFiles, listening, abortPhase, stdout, output, findVars, restVars,
                   cacheVars, batchVars>>

\* The owner of the signal aborts it after the request was made. With
\* abortHandler registered (lines 110-114) ripgrep is killed and the
\* promise rejected; without it, only signal.aborted changes.
GrepAbort ==
    /\ grepPc # "Idle"
    /\ ~aborted
    /\ aborted' = TRUE
    /\ abortPhase' = IF outcome # "Pending" THEN "Settled"
                     ELSE IF grepPc = "Searching" THEN "Searching" ELSE "Preparing"
    /\ firstEvent' = NoteEvent("abort")
    /\ IF listening
       THEN /\ proc' = IF proc = "running" THEN "killed" ELSE proc
            /\ outcome' = Settle("Aborted")
       ELSE UNCHANGED <<proc, outcome>>
    /\ UNCHANGED <<grepPc, globFilter, matchingFiles, timer, listening, stdout, output, findVars, restVars,
                   cacheVars, batchPc, uris, maxConcurrent, batchI, results,
                   launchedAborted>>

ExitCodes == {EXIT_NULL, 0, 1, 2, 3}

\* What the process has written to stderr when it closes.
StderrTexts == {"", "rg: regex parse error"}

GrepNext ==
    \/ \E glob \in BOOLEAN : GrepCall(glob)
    \/ \E fs \in FileLists : GrepFilesFound(fs)
    \/ GrepCachingDone
    \/ \E code \in ExitCodes, lines \in Stdouts, err \in StderrTexts :
            ProcCloses(code, lines, err)
    \/ ProcError
    \/ TimeoutFires
    \/ GrepAbort

(***************************************************************************)
(* S3FileSystem: fetchManifest, DirectorySchema, findFiles.                *)
(***************************************************************************)
\* The manifest TTL (5 minutes in the source), scaled to clock ticks.
MANIFEST_CACHE_TTL_MS == 2

\* key.split('/').filter(Boolean)
Parts(key) == SelectSeq(Split(key), LAMBDA part : part # <<>>)

\* parts.slice(0, i).join('/') + (i > 0 ? '/' : ''), for the i-th part (from 1)
CurrentPath(parts, i) ==
    Join(SubSeq(parts, 1, i - 1)) \o (IF i > 1 THEN <<SLASH>> ELSE <<>>)

\* const itemName = isLastPart ? item : item + '/'
ItemName(parts, i) == IF i = Len(parts) THEN parts[i] ELSE parts[i] \o <<SLASH>>

\* const key = typeof file === 'string' ? file : file.key
KeyOf(e) == IF e.type = "string" THEN e.value ELSE e.value.key

\* The keys buildFromManifest works on, for a manifest that holds `keys` in
\* the shape sh.
SchemaKeys(sh, keys) == [i \in 1..Len(keys) |-> KeyOf(Element(sh, keys[i]))]

\* The (currentPath, itemName) pairs the two loops of buildFromManifest visit.
DirPairs(files) ==
    UNION {{<<CurrentPath(Parts(files[k]), i), ItemName(Parts(files[k]), i)>> :
                i \in 1..Len(Parts(files[k]))} : k \in 1..Len(files)}

\* DirectorySchema.buildFromManifest: the dirs map, path -> set of names.
buildFromManifest(files) ==
    LET pairs == DirPairs(files)
    IN  [path \in {pr[1] : pr \in pairs} |-> {pr[2] : pr \in {q \in pairs : q[1] = path}}]

\* What JSON.parse gives for a manifest file: an object with a files array,
\* or one without (a malformed manifest).
ManifestOf(files) == [hasFiles |-> TRUE, files |-> files]
Malformed == [hasFiles |-> FALSE, files |-> <<>>]

\* The manifests of the store.
StoreManifests == {ManifestOf(<<K_a_b, K_a_c>>), ManifestOf(<<K_b>>)}

\* What the manifest file can be: absent, unreadable, not JSON, or JSON.
SourceContents ==
    {[kind |-> k, value |-> Malformed] : k \in {"ENOENT", "EACCES", "BadJson"}}
        \cup {[kind |-> "Json", value |-> v] : v \in StoreManifests \cup {Malformed}}

NoManifestCache == [present |-> FALSE, data |-> Malformed, fetchedAt |-> 0]
NoSchema == [present |-> FALSE, dirs |-> buildFromManifest(<<>>)]

\* What fetchManifest resolves with: null, or a manifest (with the time it
\* was loaded at).
ReturnNull == [isNull |-> TRUE, data |-> Malformed, loadedAt |-> 0]
ReturnManifest(data, at) == [isNull |-> FALSE, data |-> data, loadedAt |-> at]

Fetchers == {1, 2}

IdleFetch == [pc |-> "idle", ret |-> ReturnNull, mode |-> "none"]

StoreInit ==
    /\ source \in SourceContents
    /\ manifestCache = NoManifestCache
    /\ directorySchema = NoSchema
    /\ now = 0
    /\ fetch = [t \in Fetchers |-> IdleFetch]

\* The manifest store is not exercised.
StoreOff ==
    /\ source = [kind |-> "ENOENT", value |-> Malformed]
    /\ manifestCache = NoManifestCache
    /\ directorySchema = NoSchema
    /\ now = 0
    /\ fetch = [t \in Fetchers |-> IdleFetch]

\* Mutant of CacheIsFresh: a manifest of age TTL is still served.
CacheIsFresh_inclusive ==
    /\ manifestCache.present
    /\ now - manifestCache.fetchedAt <= MANIFEST_CACHE_TTL_MS

\* if (this.manifestCache) { age = Date.now() - fetchedAt; if (age < TTL) ... }
CacheIsFresh ==
    /\ manifestCache.present
    /\ now - manifestCache.fetchedAt < MANIFEST_CACHE_TTL_MS

\* findFiles calls fetchManifest, which runs to its first suspension: the
\* cached manifest is returned, or the file is being read.
FetchCall(t) ==
    /\ fetch[t].pc = "idle"
    /\ fetch' = [fetch EXCEPT ![t] =
                    IF CacheIsFresh
                    THEN [pc |-> "returned", mode |-> "none",
                          ret |-> ReturnManifest(manifestCache.data, manifestCache.fetchedAt)]
                    ELSE [pc |-> "reading", mode |-> "none", ret |-> ReturnNull]]
    /\ UNCHANGED <<source, manifestCache, directorySchema, now>>
    /\ UNCHANGED <<findVars, cacheVars, batchVars, grepVars, dirVars, toolVars>>

\* `await readFile(manifestPath, 'utf8')` settles and the rest of the try
\* block runs: JSON.parse, the assignment of manifestCache, the construction
\* of the DirectorySchema (which throws on a manifest without files); every
\* exception ends in `return null`.
ReadSettles(t) ==
    /\ fetch[t].pc = "reading"
    /\ IF source.kind # "Json"
       THEN /\ fetch' = [fetch EXCEPT ![t].pc = "returned", ![t].ret = ReturnNull]
            /\ UNCHANGED <<manifestCache, directorySchema>>
       ELSE /\ manifestCache' = [present |-> TRUE, data |-> source.value, fetchedAt |-> now]
            /\ IF source.value.hasFiles
               THEN /\ directorySchema' =
                          [present |-> TRUE, dirs |-> buildFromManifest(source.value.files)]
                    /\ fetch' = [fetch EXCEPT ![t].pc = "returned",
                                              ![t].ret = ReturnManifest(source.value, now)]
               ELSE /\ directorySchema' = directorySchema
                    /\ fetch' = [fetch EXCEPT ![t].pc = "returned", ![t].ret = ReturnNull]
    /\ UNCHANGED <<source, now>>
    /\ UNCHANGED <<findVars, cacheVars, batchVars, grepVars, dirVars, toolVars>>

\* findFilesUtil on what fetchManifest gave: `if (manifest)` takes the
\* manifest path, where manifest.files.length throws for a manifest without
\* files; null takes the remote listing.
FindFilesMode(ret) ==
    IF ret.isNull THEN "listing"
    ELSE IF ret.data.hasFiles THEN "manifest" ELSE "throws"

\* S3FileSystem.findFiles resumes after `await this.fetchManifest()`.
FindFilesResumes(t) ==
    /\ fetch[t].pc = "returned"
    /\ fetch' = [fetch EXCEPT ![t].pc = "finding", ![t].mode = FindFilesMode(fetch[t].ret)]
    /\ UNCHANGED <<source, manifestCache, directorySchema, now>>
    /\ UNCHANGED <<findVars, cacheVars, batchVars, grepVars, dirVars, toolVars>>

\* findFiles settles; the caller may call again.
FindFilesEnds(t) ==
    /\ fetch[t].pc = "finding"
    /\ fetch' = [fetch EXCEPT ![t] = IdleFetch]
    /\ UNCHANGED <<source, manifestCache, directorySchema, now>>
    /\ UNCHANGED <<findVars, cacheVars, batchVars, grepVars, dirVars, toolVars>>

\* Time passes.
Tick ==
    /\ now < MaxTime
    /\ now' = now + 1
    /\ UNCHANGED <<source, manifestCache, directorySchema, fetch>>
    /\ UNCHANGED <<findVars, cacheVars, batchVars, grepVars, dirVars, toolVars>>

\* The manifest file is rewritten, removed or made unreadable.
SourceChanges(c) ==
    /\ c # source
    /\ source' = c
    /\ UNCHANGED <<manifestCache, directorySchema, now, fetch>>
    /\ UNCHANGED <<findVars, cacheVars, batchVars, grepVars, dirVars, toolVars>>

StoreNext ==
    \/ \E t \in Fetchers : FetchCall(t)
    \/ \E t \in Fetchers : ReadSettles(t)
    \/ \E t \in Fetchers : FindFilesResumes(t)
    \/ \E t \in Fetchers : FindFilesEnds(t)
    \/ Tick
    \/ \E c \in SourceContents : SourceChanges(c)

\* The characters of the keys, in the order of their UTF-16 code units.
Alphabet == <<".", "/", "a", "b", "c", "d", "i", "j", "n", "o", "r", "s", "t", "x", "y", "z">>

Code(ch) == CHOOSE i \in 1..Len(Alphabet) : Alphabet[i] = ch

\* The default comparison of Array.prototype.sort: a < b by code units.
RECURSIVE Less(_, _)
Less(a, b) ==
    IF b = <<>> THEN FALSE
    ELSE IF a = <<>> THEN TRUE
    ELSE IF Head(a) = Head(b) THEN Less(Tail(a), Tail(b))
    ELSE Code(Head(a)) < Code(Head(b))

\* Array.from(entries)
RECURSIVE ArrayFrom(_)
ArrayFrom(set) ==
    IF set = {} THEN <<>>
    ELSE LET e == CHOOSE x \in set : TRUE
         IN  <<e>> \o ArrayFrom(set \ {e})

\* DirectorySchema.listDirectory(path) on the dirs map.
listDirectory(dirs, path) ==
    LET normalizedPath == IF EndsWith(path, <<SLASH>>) THEN path ELSE path \o <<SLASH>>
        cleanPath == IF StartsWith(normalizedPath, <<SLASH>>)
                     THEN Slice(normalizedPath, 1) ELSE normalizedPath
        lookupPath == IF cleanPath = <<SLASH>> THEN <<>> ELSE cleanPath
    IN  IF lookupPath \notin DOMAIN dirs THEN <<>>
        ELSE SortSeq(ArrayFrom(dirs[lookupPath]), Less)

\* The keys of the scenario: a/b/x.txt, a/b/y.json, a/c/z.txt.
K_x == <<"a", "/", "b", "/", "x", ".", "t", "x", "t">>
K_y == <<"a", "/", "b", "/", "y", ".", "j", "s", "o", "n">>
K_z == <<"a", "/", "c", "/", "z", ".", "t", "x", "t">>

DirManifests == Manifests \cup {<<K_x, K_y, K_z>>, <<K_z, K_y, K_x>>}

\* The paths asked for.
DirPaths == {<<>>, <<"/">>, <<"a">>, <<"a", "/">>, <<"/", "a", "/">>,
             <<"a", "/", "b", "/">>, <<"a", "/", "c", "/">>,
             <<"a", "/", "d", "i", "r", "/">>, <<"b", "/">>, <<"z", "/">>}

DirInit ==
    /\ dirFiles \in DirManifests
    /\ dirPath \in DirPaths
    /\ dirEntries = <<>>
    /\ dirPc = "call"

\* new DirectorySchema(manifest, bucket).listDirectory(path)
ListDirectory ==
    /\ dirPc = "call"
    /\ dirEntries' = listDirectory(buildFromManifest(dirFiles), dirPath)
    /\ dirPc' = "done"
    /\ UNCHANGED <<dirFiles, dirPath>>
    /\ UNCHANGED <<findVars, cacheVars, batchVars, grepVars, storeVars, toolVars>>

\* The directory listing is not exercised.
DirOff ==
    /\ dirFiles = <<>>
    /\ dirPath = <<>>
    /\ dirEntries = <<>>
    /\ dirPc = "off"

(***************************************************************************)
(* handleGrep and grepFiles: the in-process search.                        *)
(***************************************************************************)
\* A candidate file: what stat and readFile do for it, and the number of
\* its lines the regular expression accepts.
FileKinds ==
    {[kind |-> "file", hits |-> h] : h \in {0, 3, GREP_MAX_RESULTS_PER_FILE,
                                            GREP_MAX_RESULTS_PER_FILE + 2}}
        \cup {[kind |-> k, hits |-> 0] : k \in {"statFails", "readFails", "directory"}}

BigFile == [kind |-> "file", hits |-> GREP_MAX_RESULTS_PER_FILE + 2]

\* The buckets: up to two files of any kind, then files with many hits.
ObjectLists ==
    {h \o [i \in 1..n |-> BigFile] :
        h \in UNION {[1..k -> FileKinds] : k \in 0..2}, n \in 0..(MaxCandidates + 1)}

\* findFiles(globPattern, 1000): the first matches up to the cap.
FindCandidates(objs) == SubSeq(objs, 1, Min(MaxCandidates, Len(objs)))

\* Mutant of LinesOf: the inner loop breaks on the total only.
LinesOf_noPerFileCap(file, total) ==
    IF file.kind # "file" THEN 0
    ELSE Min(file.hits, GREP_MAX_TOTAL_RESULTS - total)

\* The lines one candidate contributes: the inner loop breaks when the
\* file has given GREP_MAX_RESULTS_PER_FILE lines or the total is reached.
LinesOf(file, total) ==
    IF file.kind # "file" THEN 0
    ELSE Min(file.hits, Min(GREP_MAX_RESULTS_PER_FILE, GREP_MAX_TOTAL_RESULTS - total))

HandleGrepInit ==
    /\ hgVariant \in {"strict", "fallback"}
    /\ hgCache \in {"none", "empty", "populated"}
    /\ hgPc = "call"
    /\ objects \in {o \in ObjectLists : Len(o) <= MaxCandidates + 1}
    /\ candidates = <<>>
    /\ gfIdx = 1
    /\ gfResults = <<>>
    /\ totalMatches = 0

\* handleGrep up to the search it starts. tools/grep.ts throws when there
\* is no cache object or no entry; part_002 and server.ts call grepFiles,
\* whose `await filesystem.findFiles(globPattern, 1000)` settles here.
HandleGrepCall ==
    /\ hgPc = "call"
    /\ IF hgCache = "populated"
       THEN hgPc' = "ripgrep" /\ UNCHANGED candidates
       ELSE IF hgVariant = "strict"
       THEN hgPc' = "thrown" /\ UNCHANGED candidates
       ELSE hgPc' = "grepFiles" /\ candidates' = FindCandidates(objects)
    /\ UNCHANGED <<hgVariant, hgCache, objects, gfIdx, gfResults, totalMatches, coreVars,
                   closeVars, filterVars, readVars, extraVars>>

\* One iteration of `for (const fileURI of filteredFiles)`: stat, readFile
\* and the loop over the lines; a failure is caught and the file skipped.
GrepFilesStep ==
    /\ hgPc = "grepFiles"
    /\ gfIdx <= Len(candidates)
    /\ totalMatches < GREP_MAX_TOTAL_RESULTS
    /\ LET n == LinesOf(candidates[gfIdx], totalMatches)
       IN  /\ gfResults' = gfResults \o [i \in 1..n |-> gfIdx]
           /\ totalMatches' = totalMatches + n
    /\ gfIdx' = gfIdx + 1
    /\ UNCHANGED <<hgVariant, hgCache, hgPc, objects, candidates, coreVars, closeVars,
                   filterVars, readVars, extraVars>>

\* The loop ends (no candidate left, or the break at the top): the trailer
\* is appended when results.length >= GREP_MAX_TOTAL_RESULTS.
GrepFilesReturn ==
    /\ hgPc = "grepFiles"
    /\ (gfIdx > Len(candidates) \/ totalMatches >= GREP_MAX_TOTAL_RESULTS)
    /\ gfResults' = IF Len(gfResults) >= GREP_MAX_TOTAL_RESULTS
                    THEN gfResults \o <<0, 0>> ELSE gfResults
    /\ hgPc' = "returned"
    /\ UNCHANGED <<hgVariant, hgCache, objects, candidates, gfIdx, totalMatches, coreVars,
                   closeVars, filterVars, readVars, extraVars>>

HandleGrepNext == HandleGrepCall \/ GrepFilesStep \/ GrepFilesReturn

\* handleGrep is not exercised.
FallbackOff ==
    /\ hgVariant = "strict"
    /\ hgCache = "none"
    /\ hgPc = "off"
    /\ objects = <<>>
    /\ candidates = <<>>
    /\ gfIdx = 1
    /\ gfResults = <<>>
    /\ totalMatches = 0

(***************************************************************************)
(* handleFilterMetadata.                                                   *)
(***************************************************************************)
\* A manifest entry (S3ObjectMetadata). An optional field that is missing
\* is UNDEFINED (size), 0 (lastModified, times are positive) or
\* "undefined" (storageClass).
Entry(k, sz, lm, sc) == [key |-> k, size |-> sz, lastModified |-> lm, storageClass |-> sc]

FilterManifest ==
    <<Entry(K_a_b, 0, 1, "STANDARD"),
      Entry(K_b, 2, 2, "GLACIER"),
      Entry(K_a_c, UNDEFINED, 0, "undefined"),
      Entry(K_a_b_c, 1, 2, "STANDARD")>>

\* The arguments after the typeof tests of lines 94-103. A date argument
\* is a time, 0 for the empty string; a string argument that is not
\* supplied is "undefined".
FilterArgs ==
    [minSize : {UNDEFINED, 0, 1}, maxSize : {UNDEFINED, 1},
     modifiedAfter : {UNDEFINED, 0, 2}, modifiedBefore : {UNDEFINED, 1},
     storageClass : {"undefined", "", "STANDARD"}, keyPattern : {"undefined", "a"},
     limit : {UNDEFINED, 1}, offset : {0, 1}]

Stages == {"minSize", "maxSize", "modifiedAfter", "modifiedBefore", "storageClass",
           "keyPattern"}

\* new Date(text) >= / <= : a comparison with an invalid date is false.
DateAtLeast(lm, d) == lm # 0 /\ d # 0 /\ lm >= d
DateAtMost(lm, d) == lm # 0 /\ d # 0 /\ lm <= d

\* new RegExp(keyPattern).test(key) for a pattern of plain characters.
RegexTest(p, key) == p = "" \/ Includes(key, p)

\* The predicate of each results.filter(...) call, lines 124-146.
StagePredicate(stage, a, file) ==
    CASE stage = "minSize" -> file.size # UNDEFINED /\ file.size >= a.minSize
      [] stage = "maxSize" -> file.size # UNDEFINED /\ file.size <= a.maxSize
      [] stage = "modifiedAfter" -> DateAtLeast(file.lastModified, a.modifiedAfter)
      [] stage = "modifiedBefore" -> DateAtMost(file.lastModified, a.modifiedBefore)
      [] stage = "storageClass" -> file.storageClass = a.storageClass
      [] stage = "keyPattern" -> RegexTest(a.keyPattern, file.key)

\* The `if` in front of each stage: `!== undefined` for the sizes, a
\* truthiness test for the others.
StageRuns(stage, a) ==
    CASE stage = "minSize" -> a.minSize # UNDEFINED
      [] stage = "maxSize" -> a.maxSize # UNDEFINED
      [] stage = "modifiedAfter" -> Truthy(a.modifiedAfter)
      [] stage = "modifiedBefore" -> Truthy(a.modifiedBefore)
      [] stage = "storageClass" -> a.storageClass \notin {"undefined", ""}
      [] stage = "keyPattern" -> a.keyPattern \notin {"undefined", ""}

NoManifest == [isNull |-> TRUE, files |-> <<>>]

FilterInit ==
    /\ fmArgs \in FilterArgs
    /\ fmManifest \in {NoManifest, [isNull |-> FALSE, files |-> FilterManifest]}
    /\ fmResults = <<>>
    /\ fmDone = {}
    /\ fmPc = "call"

\* Lines 108-120: the manifest is loaded; without one the result is an error.
FilterLoad ==
    /\ fmPc = "call"
    /\ IF fmManifest.isNull
       THEN fmPc' = "error" /\ UNCHANGED fmResults
       ELSE fmPc' = "filter" /\ fmResults' = fmManifest.files
    /\ UNCHANGED <<fmArgs, fmManifest, fmDone, coreVars, fallbackVars, closeVars,
                   readVars, extraVars>>

\* One filter stage of lines 123-147. The source runs them in the order
\* minSize, maxSize, modifiedAfter, modifiedBefore, storageClass,
\* keyPattern; here a stage may run at any position.
FilterStage(stage) ==
    /\ fmPc = "filter"
    /\ stage \notin fmDone
    /\ fmResults' = IF StageRuns(stage, fmArgs)
                    THEN SelectSeq(fmResults, LAMBDA f : StagePredicate(stage, fmArgs, f))
                    ELSE fmResults
    /\ fmDone' = fmDone \cup {stage}
    /\ UNCHANGED <<fmArgs, fmManifest, fmPc, coreVars, fallbackVars, closeVars,
                   readVars, extraVars>>

\* Lines 151-173: offset, limit, and the text of the result.
FilterReturn ==
    /\ fmPc = "filter"
    /\ fmDone = Stages
    /\ LET r1 == IF fmArgs.offset > 0 THEN Slice(fmResults, fmArgs.offset) ELSE fmResults
           r2 == IF Truthy(fmArgs.limit) /\ fmArgs.limit > 0
                 THEN SubSeq(r1, 1, Min(fmArgs.limit, Len(r1))) ELSE r1
       IN  fmResults' = r2
    /\ fmPc' = "returned"
    /\ UNCHANGED <<fmArgs, fmManifest, fmDone, coreVars, fallbackVars, closeVars,
                   readVars, extraVars>>

FilterNext == FilterLoad \/ (\E stage \in Stages : FilterStage(stage)) \/ FilterReturn

\* filter_metadata is not exercised.
FilterOff ==
    /\ fmArgs = <<>>
    /\ fmManifest = NoManifest
    /\ fmResults = <<>>
    /\ fmDone = {}
    /\ fmPc = "off"

(***************************************************************************)
(* handleRead (tools/read.ts) on S3FileSystem.listDirectory.               *)
(***************************************************************************)
\* The text of args.path, by its parts: `scheme` says that it starts with
\* "s3://", `bucket` is what stands before the next '/', `key` is the rest
\* (the whole text when there is no scheme).
PathOf(sch, b, k) == [given |-> TRUE, scheme |-> sch, bucket |-> b, key |-> k]

MissingPath == [given |-> FALSE, scheme |-> FALSE, bucket |-> "", key |-> <<>>]

ReadPaths ==
    {MissingPath,
     PathOf(TRUE, "bucket", <<>>),
     PathOf(TRUE, "bucket", <<"a", "/">>),
     PathOf(TRUE, "bucket", <<"a", "/", "b", "/">>),
     PathOf(TRUE, "bucket", <<"z", "/">>),
     PathOf(TRUE, "other", <<"a", "/">>),
     PathOf(FALSE, "", <<"a", "/">>),
     PathOf(TRUE, "bucket", <<"a", "/", "b">>),
     PathOf(TRUE, "other", <<"b">>),
     PathOf(FALSE, "", <<"b">>)}

\* path.endsWith('/')
PathEndsWithSlash(p) == IF p.key = <<>> THEN p.scheme ELSE EndsWith(p.key, <<SLASH>>)

\* s3UriToKey throws: the text does not match /^s3:\/\/([^/]+)\/(.+)$/, or
\* the bucket is not the configured one.
s3UriToKeyThrows(p) == ~p.scheme \/ p.key = <<>> \/ p.bucket # "bucket"

\* s3UriToKey(uri) when it does not throw (no prefix is configured).
s3UriToKey(p) == p.key

\* The loop of lines 54-85 from the key of currentPath: single-child
\* directories are collapsed, then the entries are numbered.
RECURSIVE CollapseAndList(_, _, _)
CollapseAndList(dirs, key, collapsedPath) ==
    LET entries == listDirectory(dirs, key)
    IN  IF Len(entries) = 0
        THEN [isError |-> FALSE, kind |-> "empty", header |-> <<>>, entries |-> <<>>]
        ELSE IF Len(entries) = 1 /\ EndsWith(entries[1], <<SLASH>>)
        THEN CollapseAndList(dirs, key \o entries[1], collapsedPath \o entries[1])
        ELSE [isError |-> FALSE, kind |-> "listing", header |-> collapsedPath,
              entries |-> entries]

ErrorResult(k) == [isError |-> TRUE, kind |-> k, header |-> <<>>, entries |-> <<>>]

NoResult == [isError |-> FALSE, kind |-> "none", header |-> <<>>, entries |-> <<>>]

ReadInit ==
    /\ rdPath \in ReadPaths
    /\ rdSchema \in {[present |-> FALSE, files |-> <<>>]}
                        \cup {[present |-> TRUE, files |-> m] : m \in DirManifests}
    /\ rdPc = "call"
    /\ rdResult = NoResult

\* handleRead up to its first await: the argument test, and for a path
\* that ends with '/' the whole directory branch, which has no await and
\* no try around filesystem.listDirectory.
ReadCall ==
    /\ rdPc = "call"
    /\ IF ~rdPath.given
       THEN rdPc' = "returned" /\ rdResult' = ErrorResult("path argument is required")
       ELSE IF PathEndsWithSlash(rdPath)
       THEN IF ~rdSchema.present
            THEN rdPc' = "returned" /\ rdResult' = ErrorResult("No manifest available")
            ELSE IF s3UriToKeyThrows(rdPath)
            THEN rdPc' = "thrown" /\ UNCHANGED rdResult
            ELSE /\ rdPc' = "returned"
                 /\ rdResult' = CollapseAndList(buildFromManifest(rdSchema.files),
                                                s3UriToKey(rdPath), <<>>)
       ELSE rdPc' = "reading" /\ UNCHANGED rdResult
    /\ UNCHANGED <<rdPath, rdSchema, coreVars, fallbackVars, closeVars, filterVars, extraVars>>

\* `await filesystem.readFile(path)` settles inside the try of lines 89-115.
ReadFileSettles(ok) ==
    /\ rdPc = "reading"
    /\ ok => ~s3UriToKeyThrows(rdPath)
    /\ rdResult' = IF ok
                   THEN [isError |-> FALSE, kind |-> "content", header |-> <<>>,
                         entries |-> <<>>]
                   ELSE ErrorResult("Failed to read")
    /\ rdPc' = "returned"
    /\ UNCHANGED <<rdPath, rdSchema, coreVars, fallbackVars, closeVars, filterVars, extraVars>>

ReadNext == ReadCall \/ \E ok \in BOOLEAN : ReadFileSettles(ok)

\* handleRead is not exercised.
ReadOff ==
    /\ rdPath = MissingPath
    /\ rdSchema = [present |-> FALSE, files |-> <<>>]
    /\ rdPc = "off"
    /\ rdResult = NoResult

(***************************************************************************)
(* The Grep request seen from the files: which files the search reads and  *)
(* under which names (server.ts 234-271, grepWithRipgrep, grepFiles).      *)
(***************************************************************************)
\* args.glob is not given.
NoGlob == <<>>

SearchGlobs == {NoGlob} \cup Patterns

\* The buckets searched: keys of files (no directory markers).
SearchBuckets == {m \in Manifests : \A i \in 1..Len(m) : ~EndsWith(m[i], <<SLASH>>)}

\* path.join(this.cacheDir, cleanBucket, key): the cache directory and the
\* bucket are "/t" and "s" here.
LocalFileName(key) == <<"/", "t", "/", "s", "/">> \o key

\* The identifier of a key, as grepFiles prints it.
UriName(key) == <<"s", "3", ":", "/", "/", "s", "/">> \o key

\* picomatch(globFilter, { dot: true })(filename). For the patterns used
\* here (literals, ?, * and **) it decides as minimatch does.
picomatch(glob, filename) == Minimatch(filename, glob)

\* What ripgrep writes: one line per file under the cache directory, with
\* the name of the local file in front.
RipgrepLines(keys, resident) ==
    LET found == SelectSeq(SortSeq(keys, Less), LAMBDA k : k \in resident)
    IN  [i \in 1..Len(found) |-> [filename |-> LocalFileName(found[i]), key |-> found[i]]]

\* grep-ripgrep.ts 140-155: with a glob filter, a line stays when the file
\* name in front of the first ':' passes the filter.
FilterByGlob(lines, glob) ==
    SelectSeq(lines, LAMBDA l : glob = NoGlob \/ picomatch(glob, l.filename))

\* filesystem.findFiles(glob, 1000) on the manifest of the bucket.
FilesMatching(keys, glob) == SelectSeq(keys, LAMBDA k : matchGlob(glob, k))

\* grepFiles: the files of findFiles(globFilter || '**/*', 1000) are read
\* from the bucket, a line is `${fileURI}:${lineNum}: ...`.
GrepFilesLines(keys, glob) ==
    LET files == FilesMatching(keys, IF glob = NoGlob THEN <<"*", "*", "/", "*">> ELSE glob)
    IN  [i \in 1..Len(files) |-> [filename |-> UriName(files[i]), key |-> files[i]]]

SearchInit ==
    /\ srKeys \in SearchBuckets
    /\ srGlob \in SearchGlobs
    /\ srResident \in SUBSET Range(srKeys)
    /\ srPc = "call"
    /\ srEngine = "none"
    /\ srStdout = <<>>
    /\ srOutput = <<>>

\* server.ts 244-261: with entries in the cache grepWithRipgrep is called,
\* which awaits findFiles when a glob filter is given and spawns ripgrep
\* otherwise; with an empty cache grepFiles searches the bucket.
SearchCall ==
    /\ srPc = "call"
    /\ IF srResident # {}
       THEN /\ srEngine' = "ripgrep"
            /\ srPc' = IF srGlob # NoGlob THEN "warming" ELSE "spawned"
            /\ UNCHANGED <<srStdout, srOutput>>
       ELSE /\ srEngine' = "grepFiles"
            /\ srPc' = "done"
            /\ srStdout' = <<>>
            /\ srOutput' = GrepFilesLines(srKeys, srGlob)
    /\ UNCHANGED <<srKeys, srGlob, srResident, notSearchVars>>

\* grep-ripgrep.ts 52-61: the uncached files of findFiles(globFilter, 1000)
\* are handed to cacheFiles; `fetched` are those whose download succeeds.
\* Then ripgrep is spawned.
SearchWarmed(fetched) ==
    /\ srPc = "warming"
    /\ fetched \subseteq (Range(FilesMatching(srKeys, srGlob)) \ srResident)
    /\ srResident' = srResident \cup fetched
    /\ srPc' = "spawned"
    /\ UNCHANGED <<srKeys, srGlob, srEngine, srStdout, srOutput, notSearchVars>>

\* proc.on('close') with exit code 0 or 1: the lines are filtered.
SearchCloses ==
    /\ srPc = "spawned"
    /\ srStdout' = RipgrepLines(srKeys, srResident)
    /\ srOutput' = FilterByGlob(RipgrepLines(srKeys, srResident), srGlob)
    /\ srPc' = "done"
    /\ UNCHANGED <<srKeys, srGlob, srResident, srEngine, notSearchVars>>

SearchNext ==
    \/ SearchCall
    \/ \E fetched \in SUBSET Range(srKeys) : SearchWarmed(fetched)
    \/ SearchCloses

SearchOff ==
    /\ srKeys = <<>>
    /\ srGlob = NoGlob
    /\ srResident = {}
    /\ srPc = "off"
    /\ srEngine = "none"
    /\ srStdout = <<>>
    /\ srOutput = <<>>

(***************************************************************************)
(* handleGlob (tools/glob.ts, server.ts 272-310).                          *)
(***************************************************************************)
OffsetValues == {UNDEFINED, 0, 1, 2}

\* files.slice(offset) when `offset && offset > 0`
ApplyOffset(files, offset) ==
    IF Truthy(offset) /\ offset > 0 THEN Slice(files, Min(offset, Len(files))) ELSE files

\* files.slice(0, limit) when `limit && files.length > limit`
ApplyLimit(files, limit) ==
    IF Truthy(limit) /\ Len(files) > limit THEN SubSeq(files, 1, limit) ELSE files

\* The request arrives: findFiles(filePattern, limit) is awaited.
GlobInit ==
    /\ glOffset \in OffsetValues
    /\ glFiles = <<>>
    /\ glCaching = <<>>
    /\ glPc = "finding"

\* findFiles has resolved: offset, then limit, then the files are handed to
\* cacheFiles when there are between 1 and 1000 of them and the cache is
\* less than 90% full (lowUse), and the paths are returned.
GlobReturn(lowUse) ==
    /\ glPc = "finding"
    /\ findPc = "done"
    /\ LET files == ApplyLimit(ApplyOffset(matched, glOffset), maxResults)
       IN  /\ glFiles' = files
           /\ glCaching' = IF Len(files) > 0 /\ Len(files) <= MaxCandidates /\ lowUse
                           THEN files ELSE <<>>
    /\ glPc' = "returned"
    /\ UNCHANGED <<glOffset, findVars, notGlobVars>>

GlobNext ==
    \/ FindNext
    \/ \E lowUse \in BOOLEAN : GlobReturn(lowUse)

GlobOff ==
    /\ glOffset = UNDEFINED
    /\ glFiles = <<>>
    /\ glCaching = <<>>
    /\ glPc = "off"

(***************************************************************************)
(* The cacheFiles calls of overlapping tool requests: two glob requests,   *)
(* whose warm-up runs in the background, and a search.                     *)
(***************************************************************************)
Requests == {"glob1", "glob2", "grep"}

\* The downloads one window starts, for n identifiers not yet in the cache
\* (glob hands over what it found, the search only the uncached files).
WindowOf(n) == Min(n, MaxWindow)

\* A request calls cacheFiles(files, { maxConcurrent: 10 }) with n
\* identifiers: the downloads of the first window are started.
WarmCall(r, n) ==
    /\ wuPc[r] = "idle"
    /\ wuPc' = [wuPc EXCEPT ![r] = "await"]
    /\ wuLeft' = [wuLeft EXCEPT ![r] = n - WindowOf(n)]
    /\ wuFlight' = [wuFlight EXCEPT ![r] = WindowOf(n)]
    /\ UNCHANGED notWarmVars

\* A download of the current window of r settles.
WarmDownloadSettles(r) ==
    /\ wuPc[r] = "await"
    /\ wuFlight[r] > 0
    /\ wuFlight' = [wuFlight EXCEPT ![r] = @ - 1]
    /\ UNCHANGED <<wuPc, wuLeft, notWarmVars>>

\* Promise.allSettled of the window of r settles: the next window is
\* started, or the map is returned.
WarmWindowSettled(r) ==
    /\ wuPc[r] = "await"
    /\ wuFlight[r] = 0
    /\ IF wuLeft[r] = 0
       THEN /\ wuPc' = [wuPc EXCEPT ![r] = "returned"]
            /\ UNCHANGED <<wuLeft, wuFlight>>
       ELSE /\ wuLeft' = [wuLeft EXCEPT ![r] = @ - WindowOf(@)]
            /\ wuFlight' = [wuFlight EXCEPT ![r] = WindowOf(wuLeft[r])]
            /\ UNCHANGED wuPc
    /\ UNCHANGED notWarmVars

WarmInit ==
    /\ wuPc = [r \in Requests |-> "idle"]
    /\ wuLeft = [r \in Requests |-> 0]
    /\ wuFlight = [r \in Requests |-> 0]

WarmNext ==
    \/ \E r \in Requests, n \in 1..MaxBatch : WarmCall(r, n)
    \/ \E r \in Requests : WarmDownloadSettles(r)
    \/ \E r \in Requests : WarmWindowSettled(r)

\* No request has called cacheFiles.
WarmOff == WarmInit

(***************************************************************************)
(* handleRead of a directory path on the manifest store.                   *)
(***************************************************************************)
\* tools/read.ts 55-64 on S3FileSystem.listDirectory (server.ts 600-607):
\* without a directorySchema the answer is null and the read reports
\* 'No manifest available'; otherwise the listing is served.
DirRead ==
    /\ drOutcome' = IF directorySchema.present THEN "listing" ELSE "noManifest"
    /\ drSource' = source
    /\ UNCHANGED notDirReadVars

\* No directory has been read.
DirReadOff ==
    /\ drOutcome = "none"
    /\ drSource = [kind |-> "ENOENT", value |-> Malformed]

ExtraOff == SearchOff /\ GlobOff /\ WarmOff /\ DirReadOff

ToolOff == FallbackOff /\ CloseOff /\ FilterOff /\ ReadOff /\ ExtraOff

CoreOff == FindOff /\ CacheInit /\ BatchInit /\ GrepOff /\ StoreOff /\ DirOff

(***************************************************************************)
(* Specifications.                                                         *)
(***************************************************************************)
\* The content cache under two concurrent callers of cacheFile,
\* getCachedPath and clear.
Init == FindOff /\ CacheInit /\ BatchInit /\ GrepOff /\ StoreOff /\ DirOff /\ ToolOff

Next ==
    \/ \E t \in DirectTasks, uri \in Ids : CacheFileCall(t, uri)
    \/ \E t \in DirectTasks : CacheFileReturn(t)
    \/ TaskNext
    \/ \E uri \in Ids : GetCachedPath(uri)
    \/ ClearCall
    \/ ClearRmSettles

Spec == Init /\ [][Next]_vars

\* One cacheFiles call with its abort signal.
NextBatch ==
    \/ \E us \in UriLists, mc \in 1..MaxWindow : CacheFilesCall(us, mc)
    \/ WindowSettled
    \/ Abort
    \/ TaskNext

SpecBatch == Init /\ [][NextBatch]_vars

\* options.maxConcurrent is any number the caller passes: `?? 10` replaces
\* only null and undefined.
WindowSizes == 0..MaxWindow

\* One cacheFiles call with any maxConcurrent. Every download settles and
\* every settled promise has its continuation run.
NextBatchAny ==
    \/ \E us \in UriLists, mc \in WindowSizes : CacheFilesCall(us, mc)
    \/ WindowSettled
    \/ Abort
    \/ TaskNext

SpecBatchLive ==
    Init /\ [][NextBatchAny]_vars /\ WF_vars(WindowSettled) /\ WF_vars(TaskNext)

(***************************************************************************)
(* File Finder: the remote-listing path of findFiles, on a bucket that     *)
(* holds the keys of `manifest`.                                           *)
(***************************************************************************)
\* ListObjectsV2 with Prefix: the keys that start with the prefix, in
\* ascending order.
ListObjects(keys, pfx) ==
    SortSeq(SelectSeq(keys, LAMBDA k : StartsWith(k, pfx)), Less)

\* MaxKeys: maxResults ? Math.min(1000, maxResults - files.length) : 1000
PageLimit(found) ==
    IF Truthy(maxResults) THEN Min(MaxKeys, maxResults - Len(found)) ELSE MaxKeys

\* Lines 133-137: a key that ends with '/' is skipped, the others are
\* matched by their path relative to the base prefix.
ListingAccepts(key) ==
    /\ ~EndsWith(key, <<SLASH>>)
    /\ matchGlob(pattern, IF StartsWith(key, prefix) THEN Slice(key, Len(prefix)) ELSE key)

\* The loop over response.Contents: [files, returned] after the page.
RECURSIVE ScanPage(_, _)
ScanPage(page, found) ==
    IF page = <<>> THEN [files |-> found, returned |-> FALSE]
    ELSE IF ListingAccepts(Head(page))
    THEN LET f2 == Append(found, s3KeyToURI(Head(page)))
         IN  IF Truthy(maxResults) /\ Len(f2) >= maxResults
             THEN [files |-> f2, returned |-> TRUE]
             ELSE ScanPage(Tail(page), f2)
    ELSE ScanPage(Tail(page), found)

\* One iteration of the do-while: `await s3Client.send(command)` settles
\* with a page, the page is scanned, and the loop goes on while there is a
\* continuation token and the cap is not reached.
ListPage ==
    /\ findPc = "done"
    /\ listPc = "page"
    /\ LET all == ListObjects(manifest, FullPrefix)
           last == Min(listToken + PageLimit(listed), Len(all))
           r == ScanPage(SubSeq(all, listToken + 1, last), listed)
       IN  /\ listed' = r.files
           /\ listToken' = last
           /\ listLog' = Append(listLog,
                  [MaxKeys |-> PageLimit(listed),
                   ContinuationToken |-> IF listLog = <<>> THEN UNDEFINED ELSE listToken,
                   filesBefore |-> Len(listed),
                   NextContinuationToken |-> IF last < Len(all) THEN last ELSE UNDEFINED])
           /\ listPc' = IF \/ r.returned
                           \/ last >= Len(all)
                           \/ (Truthy(maxResults) /\ Len(r.files) >= maxResults)
                        THEN "done" ELSE "page"
    /\ UNCHANGED <<pattern, prefix, maxResults, manifest, shape, fastPath, fileIdx, matched, findPc,
                   notFindVars>>

(***************************************************************************)
(* S3FileSystem: identifiers as text (server.ts 482-508).                  *)
(***************************************************************************)
\* this.config.bucket
BucketName == <<"s">>

\* return this.config.prefix ? `${this.config.prefix}${key}` : key
applyPrefix(key) == IF prefix # <<>> THEN prefix \o key ELSE key

\* key.startsWith(prefix) ? key.slice(prefix.length) : key
removePrefix(key) == IF StartsWith(key, prefix) THEN Slice(key, Len(prefix)) ELSE key

\* `s3://${this.config.bucket}/${cleanKey}`
keyToS3Uri(key) == <<"s", "3", ":", "/", "/">> \o BucketName \o <<SLASH>> \o removePrefix(key)

\* The position of the first '/' of a text, 0 when it has none.
FirstSlash(text) ==
    IF Includes(text, SLASH)
    THEN CHOOSE i \in 1..Len(text) : text[i] = SLASH /\ \A j \in 1..(i - 1) : text[j] # SLASH
    ELSE 0

\* uri.match(/^s3:\/\/([^/]+)\/(.+)$/): [matches, bucket, key]
UriMatch(uri) ==
    LET rest == Slice(uri, 5)
        at == FirstSlash(rest)
    IN  IF StartsWith(uri, <<"s", "3", ":", "/", "/">>) /\ at > 1 /\ at < Len(rest)
        THEN [matches |-> TRUE, bucket |-> SubSeq(rest, 1, at - 1), key |-> Slice(rest, at)]
        ELSE [matches |-> FALSE, bucket |-> <<>>, key |-> <<>>]

\* s3UriToKey on the text of a URI: [throws, key]
s3UriToKeyText(uri) ==
    LET m == UriMatch(uri)
    IN  IF ~m.matches \/ m.bucket # BucketName
        THEN [throws |-> TRUE, key |-> <<>>]
        ELSE [throws |-> FALSE, key |-> applyPrefix(m.key)]

\* findFiles on a manifest.
InitFind == FindInit /\ CacheInit /\ BatchInit /\ GrepOff /\ StoreOff /\ DirOff /\ ToolOff

SpecFind == InitFind /\ [][FindNext]_vars

\* The same request served twice, from the manifest and then, without it,
\* from the listing of a bucket that holds the keys of the manifest.
SpecFindBoth == InitFind /\ [][FindNext \/ ListPage]_vars

\* One search request: warm-up through cacheFiles, then ripgrep racing
\* against the timeout and the abort signal.
NextGrep ==
    \/ GrepNext
    \/ WindowSettled
    \/ TaskNext

SpecGrep == Init /\ [][NextGrep]_vars

\* The manifest store under two concurrent findFiles callers, a clock and a
\* manifest file that changes.
InitStore == FindOff /\ CacheInit /\ BatchInit /\ GrepOff /\ StoreInit /\ DirOff /\ ToolOff

SpecStore == InitStore /\ [][StoreNext]_vars

\* listDirectory on the index built from a manifest.
InitDir == FindOff /\ CacheInit /\ BatchInit /\ GrepOff /\ StoreOff /\ DirInit /\ ToolOff

SpecDir == InitDir /\ [][ListDirectory]_vars

\* One search request through handleGrep, served in process when nothing
\* is cached.
InitFallback == CoreOff /\ HandleGrepInit /\ CloseOff /\ FilterOff /\ ReadOff /\ ExtraOff

\* One filter_metadata request.
InitFilter == CoreOff /\ FallbackOff /\ CloseOff /\ FilterInit /\ ReadOff /\ ExtraOff

SpecFilter == InitFilter /\ [][FilterNext]_vars

\* One read request: a directory listing or a file.
InitRead == CoreOff /\ FallbackOff /\ CloseOff /\ FilterOff /\ ReadInit /\ ExtraOff

SpecRead == InitRead /\ [][ReadNext]_vars

\* One Grep request on a bucket, after earlier requests left some of its
\* files in the cache.
InitSearch == CoreOff /\ FallbackOff /\ CloseOff /\ FilterOff /\ ReadOff /\ SearchInit /\ GlobOff
              /\ WarmOff /\ DirReadOff

SpecSearch == InitSearch /\ [][SearchNext]_vars

\* One glob request: findFiles of src/src/find-files.ts on a manifest of
\* key strings, no configured prefix, then the slicing of handleGlob.
InitGlob ==
    /\ FindInit /\ fastPath /\ shape = "string" /\ prefix = <<>>
    /\ CacheInit /\ BatchInit /\ GrepOff /\ StoreOff /\ DirOff
    /\ FallbackOff /\ CloseOff /\ FilterOff /\ ReadOff /\ SearchOff /\ GlobInit /\ WarmOff /\ DirReadOff

SpecGlob == InitGlob /\ [][GlobNext]_vars

\* Overlapping tool requests that warm the cache.
InitWarm == CoreOff /\ ToolOff

SpecWarm == InitWarm /\ [][WarmNext]_vars

\* The manifest store with reads of a directory path among the findFiles
\* calls.
SpecStoreRead == InitStore /\ [][StoreNext \/ DirRead]_vars

SpecFallback == InitFallback /\ [][HandleGrepNext]_vars

(***************************************************************************)
(* Claims about the File Finder.                                           *)
(***************************************************************************)
\* The keys of the manifest the matcher accepts, in manifest order, as identifiers.
RECURSIVE MatchingIds(_)
MatchingIds(files) ==
    IF files = <<>> THEN <<>>
    ELSE IF matchGlob(pattern, Head(files))
         THEN <<s3KeyToURI(Head(files))>> \o MatchingIds(Tail(files))
         ELSE MatchingIds(Tail(files))

\* C1: with no base prefix and no maxResults, findFiles on the manifest path
\* returns exactly the identifiers of the manifest keys that satisfy
\* matches(P, key), for every pattern, literal patterns included.
C1_FindExactlyMatches ==
    (findPc = "done" /\ maxResults = UNDEFINED /\ prefix = <<>>)
        => matched = MatchingIds(manifest)

\* C17: every manifest key the matcher accepts for the pattern starts with
\* extractFixedPrefix(pattern), whatever the pattern, literal ones included.
C17_FixedPrefixIsSound ==
    \A i \in 1..Len(manifest) :
        matchGlob(pattern, manifest[i])
            => StartsWith(manifest[i], extractFixedPrefix(pattern))

\* C18: no key that ends with '/' (a directory marker) is among the keys
\* findFiles has pushed to its result, for any pattern.
C18_NoDirectoryMarkers ==
    \A i \in 1..(fileIdx - 1) :
        EndsWith(manifest[i], <<SLASH>>) => ~IsMatch(manifest[i])

\* The result of the call with no cap: the identifiers of the keys the loop
\* accepts, in manifest order.
RECURSIVE Uncapped(_)
Uncapped(files) ==
    IF files = <<>> THEN <<>>
    ELSE (IF IsMatch(Head(files)) THEN <<s3KeyToURI(Head(files))>> ELSE <<>>)
            \o Uncapped(Tail(files))

\* C19: for every supplied maxResults n, the result is the first n elements
\* of the result without a cap (all of them when fewer than n match), and
\* when n matches exist the last key scanned is the n-th match.
C19_FirstNInOrder ==
    (findPc = "done" /\ maxResults # UNDEFINED)
        => /\ matched = SubSeq(Uncapped(manifest), 1,
                                Min(maxResults, Len(Uncapped(manifest))))
           /\ (maxResults > 0 /\ Len(Uncapped(manifest)) >= maxResults)
                 => IsMatch(manifest[fileIdx - 1])

(***************************************************************************)
(* Claims about the Content Cache.                                         *)
(***************************************************************************)
KeySet(c) == {c[i].uri : i \in 1..Len(c)}

\* C2: in every reachable state the sum of entry.size over the entries of
\* the index equals the resident byte count getStats().sizeBytes reports.
C2_SizeMatchesIndex == SumSizes(cache) = getStats.sizeBytes

\* C3: getStats().sizeBytes never exceeds the configured capacity and
\* getStats().entries never exceeds the configured maximum.
C3_WithinBounds ==
    /\ getStats.sizeBytes <= getStats.maxSizeBytes
    /\ getStats.entries <= MAX_CACHE_ENTRIES

\* C4: a cacheFile(id) call made while id is resident (a call after an
\* earlier call for id returned, with no eviction of id in between) issues no
\* download, returns the local path the earlier call returned, and changes
\* neither the entry set nor the resident byte count.
C4_SecondCallIsHit ==
    [][\A t \in TaskIds, uri \in Ids :
          (/\ tasks[t].pc = "idle"
           /\ tasks'[t].pc # "idle"
           /\ tasks'[t].uri = uri
           /\ Has(cache, uri))
          => (/\ downloads' = downloads
              /\ tasks'[t].pc = "done"
              /\ tasks'[t].ret = getLocalPath(uri)
              /\ KeySet(cache') = KeySet(cache)
              /\ currentSize' = currentSize)]_vars

\* Two calls were made, one download was issued, and both have returned
\* the path: the second call was served from the cache.
C4_Witness ==
    /\ calls = 2
    /\ downloads = 1
    /\ \E t \in DirectTasks :
          /\ tasks[t].pc = "done"
          /\ tasks[t].ret = getLocalPath(tasks[t].uri)
          /\ Has(cache, tasks[t].uri)
          /\ \A u \in TaskIds \ {t} : tasks[u].pc = "idle"

\* After cacheFile(uri) succeeded: getCachedPath(uri) gives a path, and the
\* file there holds the text readFile delivered for the object.
RoundTripOk(uri) ==
    /\ getCachedPath(uri) # NULL
    /\ disk[getLocalPath(uri)].exists
    /\ disk[getLocalPath(uri)].data = Utf8Encode(readFile(uri))

\* C5: whenever cacheFile(id) returns successfully (its slot comes to hold a
\* returned path, in a call just made or one that was under way), an
\* immediately following getCachedPath(id) returns a non-null path and the
\* file at that path holds the content of the remote object.
C5_RoundTrip ==
    [][\A t \in TaskIds, uri \in Ids :
          (/\ tasks'[t].pc = "done"
           /\ tasks'[t].uri = uri
           /\ tasks[t].pc # "done" \/ (t \in BatchTasks /\ batchI' # batchI))
          => RoundTripOk(uri)']_vars

\* C6: when cacheFiles returns (not cut short by the signal), its result
\* reports an outcome for every identifier whose download failed, as it
\* does for those that were cached.
C6_OutcomePerIdentifier ==
    (batchPc = "returned" /\ ~aborted)
        => \A u \in Range(uris) : ~RemoteExists(u) => u \in DOMAIN results

\* The outcome each event stands for.
OutcomeOf(e) ==
    CASE e = "close" -> "Completed"
      [] e = "closeError" -> "Failed"
      [] e = "timeout" -> "TimedOut"
      [] e = "abort" -> "Aborted"
      [] OTHER -> "Pending"

\* C7: a search request settles once, with the outcome of whichever of the
\* events (ripgrep closes, the timeout fires, the signal is aborted) came
\* first; the events after it change nothing.
C7_FirstEventDecides ==
    outcome # "Pending" => outcome = OutcomeOf(firstEvent)

\* C8: a request whose signal was aborted while it was under way, in the
\* Preparing or in the Searching phase, ends Aborted with ripgrep not
\* running.
C8_AbortEndsAborted ==
    (outcome # "Pending" /\ abortPhase \in {"Preparing", "Searching"})
        => (outcome = "Aborted" /\ proc # "running")

\* The match lines of a result, and whether the trailer follows them.
HasTrailer(out) ==
    /\ Len(out) >= Len(TRAILER)
    /\ SubSeq(out, Len(out) - Len(TRAILER) + 1, Len(out)) = TRAILER

MatchLines(out) == IF HasTrailer(out) THEN Len(out) - Len(TRAILER) ELSE Len(out)

\* C9: a completed search carries the trailer exactly when more than
\* GREP_MAX_TOTAL_RESULTS lines matched (after the glob re-filter), and
\* never more than GREP_MAX_TOTAL_RESULTS match lines.
C9_TrailerIffTruncated ==
    outcome = "Completed"
        => /\ HasTrailer(output) <=> Len(FilterLines(stdout, globFilter)) > GREP_MAX_TOTAL_RESULTS
           /\ MatchLines(output) <= GREP_MAX_TOTAL_RESULTS

\* C10: no window is launched once the cancellation signal is set, the
\* first window of a call made with the signal already set included.
C10_NoLaunchAfterAbort == ~launchedAborted

\* What findFiles returns for the keys of the manifest when nothing caps it.
MatchingKeys ==
    LET hits == SelectSeq(manifest, IsMatch)
    IN  [i \in 1..Len(hits) |-> s3KeyToURI(hits[i])]

\* C25: a manifest whose files are key strings is accepted like the one that
\* holds the same keys as {key} records: findFiles does not throw on either
\* and returns the matching keys, and the directory listing of every path is
\* the same for the two shapes.
C25_BothShapesAccepted ==
    /\ findPc # "thrown"
    /\ (findPc = "done" /\ maxResults = UNDEFINED) =>
          /\ matched = MatchingKeys
          /\ \A p \in DirPaths :
                listDirectory(buildFromManifest(SchemaKeys("string", manifest)), p)
                    = listDirectory(buildFromManifest(SchemaKeys("object", manifest)), p)

\* C30: for the same objects, base prefix and pattern (no cap), the
\* manifest path and the listing path return the same set of identifiers.
C30_PathsAgree ==
    (findPc = "done" /\ listPc = "done" /\ maxResults = UNDEFINED)
        => Range(matched) = Range(listed)

(***************************************************************************)
(* Claims about the windows of cacheFiles.                                 *)
(***************************************************************************)
\* The cacheFile calls of the batch that have not settled.
InFlight == {t \in TaskIds : tasks[t].pc \in {"download", "stat"}}

\* C11: during a cacheFiles call at most maxConcurrent downloads are in
\* flight, and a window is launched only when every call of the window
\* before it has settled.
C11_BoundedWindows ==
    /\ [](batchPc = "await" => Cardinality(InFlight) <= maxConcurrent)
    /\ [][(batchPc = "await" /\ batchI' # batchI) => InFlight = {}]_vars

\* The second window of a three-element batch is in flight, after a first
\* window that was full.
C11_Witness ==
    /\ batchPc = "await"
    /\ maxConcurrent = 2
    /\ Len(uris) = 3
    /\ batchI = 2
    /\ InFlight = {1}
    /\ Cardinality(DOMAIN results) = 2

(***************************************************************************)
(* Claims about the Manifest Store.                                        *)
(***************************************************************************)
\* C12: fetchManifest resolves with null on every load failure, a
\* malformed manifest included, so what it resolves with is null or a
\* manifest with its files, and findFiles never fails on it (it takes the
\* remote listing).
C12_LoadFailureIsNull ==
    \A t \in Fetchers :
        /\ fetch[t].pc \in {"returned", "finding"}
              => (fetch[t].ret.isNull \/ fetch[t].ret.data.hasFiles)
        /\ fetch[t].mode # "throws"

\* C13: a fetchManifest call is served from the cache, without reading the
\* file, exactly when a manifest is cached and younger than the TTL; and a
\* manifest is never returned TTL or more after it was loaded.
C13_ServedWithinTtl ==
    [][\A t \in Fetchers :
          /\ (fetch[t].pc = "idle" /\ fetch'[t].pc # "idle")
                => (fetch'[t].pc = "returned"
                        <=> (/\ manifestCache.present
                             /\ now - manifestCache.fetchedAt < MANIFEST_CACHE_TTL_MS))
          /\ (fetch[t].pc # "returned" /\ fetch'[t].pc = "returned" /\ ~fetch'[t].ret.isNull)
                => now' - fetch'[t].ret.loadedAt < MANIFEST_CACHE_TTL_MS]_vars

\* One caller was served an earlier load from the cache; the cache has
\* since expired and the other caller is reading the file again.
C13_Witness ==
    /\ fetch[2].pc = "returned"
    /\ ~fetch[2].ret.isNull
    /\ fetch[2].ret.loadedAt < now
    /\ manifestCache.present
    /\ now - manifestCache.fetchedAt >= MANIFEST_CACHE_TTL_MS
    /\ fetch[1].pc = "reading"

\* C14: the directory index is the one built from the cached manifest:
\* both are absent, or both are present and the index was built from it.
C14_IndexMatchesManifest ==
    \/ ~manifestCache.present /\ ~directorySchema.present
    \/ /\ manifestCache.present
       /\ directorySchema.present
       /\ manifestCache.data.hasFiles
       /\ directorySchema.dirs = buildFromManifest(manifestCache.data.files)

(***************************************************************************)
(* Claims about the directory index.                                       *)
(***************************************************************************)
\* The child of directory d that key k stands for: the rest of the key up
\* to and including its first '/', or all of it when it has none.
ChildOf(k, d) ==
    LET rest == Slice(k, Len(d))
        cut == CHOOSE i \in 1..Len(rest) :
                  rest[i] = SLASH /\ \A j \in 1..(i - 1) : rest[j] # SLASH
    IN  IF Includes(rest, SLASH) THEN SubSeq(rest, 1, cut) ELSE rest

\* The immediate children of d that the keys imply.
ExpectedChildren(files, d) ==
    {ChildOf(files[k], d) : k \in {i \in 1..Len(files) : StartsWith(files[i], d) /\ files[i] # d}}

\* The number of chains of entries that lead from directory d to key k.
RECURSIVE Chains(_, _, _)
Chains(dirs, d, k) ==
    LET es == listDirectory(dirs, d)
        here == {i \in 1..Len(es) : d \o es[i] = k}
        below == {i \in 1..Len(es) :
                     /\ EndsWith(es[i], <<SLASH>>)
                     /\ d \o es[i] # k
                     /\ StartsWith(k, d \o es[i])}
        RECURSIVE Sum(_)
        Sum(S) == IF S = {} THEN 0
                  ELSE LET i == CHOOSE x \in S : TRUE
                       IN  Chains(dirs, d \o es[i], k) + Sum(S \ {i})
    IN  Cardinality(here) + Sum(below)

\* A directory path in its plain form: the root, or a path ending in '/'.
PlainDir(d) == d = <<>> \/ (EndsWith(d, <<SLASH>>) /\ ~StartsWith(d, <<SLASH>>))

\* C15: listDirectory(d) is the sequence of the immediate children of d
\* that the manifest keys imply (a file by its name, a subdirectory by its
\* name and '/'), without duplicates, in ascending order, empty when there
\* are none; and each key is reached from the root by exactly one chain.
C15_ListsImmediateChildren ==
    (dirPc = "done" /\ PlainDir(dirPath))
        => /\ {dirEntries[i] : i \in 1..Len(dirEntries)} = ExpectedChildren(dirFiles, dirPath)
           /\ \A i \in 1..(Len(dirEntries) - 1) : Less(dirEntries[i], dirEntries[i + 1])
           /\ \A k \in 1..Len(dirFiles) :
                 Chains(buildFromManifest(dirFiles), <<>>, dirFiles[k]) = 1

\* clear() has completed, every removeFile it or an earlier eviction started
\* has run, no cacheFile call is in flight, and no later call has inserted
\* an entry since.
ClearSettled ==
    /\ clearPc = "done"
    /\ \A p \in LocalPaths : unlinking[p] = 0
    /\ \A t \in TaskIds : tasks[t].pc = "idle"
    /\ batchPc # "await"
    /\ Len(cache) = 0

\* C20: once clear() has completed and every cleanup callback has run, with
\* the index holding zero entries, getStats().sizeBytes is exactly 0 and no
\* file is left under the cache root.
C20_ClearLeavesNothing ==
    ClearSettled
        => /\ getStats.entries = 0
           /\ getStats.sizeBytes = 0
           /\ \A p \in LocalPaths : ~disk[p].exists

\* The position of the latest use of u in a history of uses.
PosIn(order, u) == CHOOSE i \in 1..Len(order) : order[i] = u

C27_FailureLeavesCacheAlone ==
    [][\A t \in TaskIds :
          /\ (tasks[t].pc = "idle" /\ tasks'[t].pc = "download" /\ clearPc' = clearPc)
                => (KeySet(cache') = KeySet(cache) /\ currentSize' = currentSize)
          /\ (tasks[t].pc \in {"download", "stat"} /\ tasks'[t].pc = "failed")
                => /\ cache' = cache
                   /\ currentSize' = currentSize
                   /\ tasks'[t].ret = NULL]_vars

\* C27 witness: with "a.txt" resident, a call for an object that does not
\* exist has failed.
C27_Witness ==
    /\ \E t \in TaskIds : tasks[t].pc = "failed" /\ tasks[t].uri = "gone"
    /\ KeySet(cache) = {"a.txt"}
    /\ currentSize = 1

\* C29: the file of every entry of the index exists on disk, also while
\* calls for the same identifier overlap and while the removal of an
\* evicted or replaced entry is pending (clear() is left out).
C29_ResidentFilesExist ==
    clearPc = "idle" => \A i \in 1..Len(cache) : disk[cache[i].localPath].exists

(***************************************************************************)
(* Claims about the tool handlers.                                         *)
(***************************************************************************)
\* C21: a search request made with no cache object or with an empty cache
\* is served by the in-process search and returns a result; it never fails
\* because nothing is cached.
C21_FallbackAlwaysServes ==
    /\ hgPc # "thrown"
    /\ (hgCache \in {"none", "empty"} /\ hgPc \notin {"off", "call"})
          => hgPc \in {"grepFiles", "returned"}

\* C22: when ripgrep closes before any timeout or abort, exit code 0 gives
\* the matching lines (glob re-filter, first GREP_MAX_TOTAL_RESULTS), exit
\* code 1 gives an empty successful result, and every exit code of 2 or
\* more gives a failure that carries the code and the stderr text.
C22_ExitStatusDecides ==
    (firstEvent \in {"close", "closeError"} /\ closeCode # EXIT_NULL)
        => /\ closeCode = 0 =>
                /\ outcome = "Completed"
                /\ \A k \in 1..MatchLines(output) :
                        output[k] = FilterLines(stdout, globFilter)[k]
                /\ MatchLines(output) =
                        Min(Len(FilterLines(stdout, globFilter)), GREP_MAX_TOTAL_RESULTS)
           /\ closeCode = 1 => (outcome = "Completed" /\ output = <<>>)
           /\ closeCode >= 2 =>
                /\ outcome = "Failed"
                /\ errorText = [code |-> closeCode, stderr |-> stderrText]

\* C22 witness: ripgrep closed first, with exit code 1 and an empty
\* successful result.
C22_Witness ==
    /\ firstEvent = "close"
    /\ closeCode = 1
    /\ outcome = "Completed"
    /\ output = <<>>
    /\ proc = "closed"

\* The result lines that come from candidate f, and from the candidates
\* before it.
LinesFrom(f) == Cardinality({k \in 1..Len(gfResults) : gfResults[k] = f})

LinesBefore(f) ==
    Cardinality({k \in 1..Len(gfResults) : gfResults[k] # 0 /\ gfResults[k] < f})

\* C23: in the in-process search no file gives more than
\* GREP_MAX_RESULTS_PER_FILE lines, the match lines never exceed
\* GREP_MAX_TOTAL_RESULTS, no more candidates than the cap handed to
\* findFiles are considered, and a file whose stat or read fails is
\* skipped: every readable file with a matching line that comes before the
\* total is reached is in the result.
C23_FallbackCaps ==
    hgPc \in {"grepFiles", "returned"}
        => /\ \A f \in 1..Len(candidates) : LinesFrom(f) <= GREP_MAX_RESULTS_PER_FILE
           /\ Cardinality({k \in 1..Len(gfResults) : gfResults[k] # 0})
                  <= GREP_MAX_TOTAL_RESULTS
           /\ Len(candidates) <= MaxCandidates
           /\ \A k \in 1..Len(gfResults) : gfResults[k] < gfIdx
           /\ hgPc = "returned" =>
                 \A f \in 1..Len(candidates) :
                    (/\ candidates[f].kind = "file"
                     /\ candidates[f].hits > 0
                     /\ LinesBefore(f) < GREP_MAX_TOTAL_RESULTS) => LinesFrom(f) > 0

\* C23 witness: the bucket holds more files than the cap, the first
\* candidate could not be read, the files after it were searched, and the
\* result is full (GREP_MAX_TOTAL_RESULTS lines and the trailer).
C23_Witness ==
    /\ hgPc = "returned"
    /\ Len(objects) > MaxCandidates
    /\ candidates[1].kind = "readFails"
    /\ LinesFrom(2) = GREP_MAX_RESULTS_PER_FILE
    /\ Len(gfResults) = GREP_MAX_TOTAL_RESULTS + 2

\* A criterion is supplied when the argument has the type of lines 95-100.
Supplied(stage, a) ==
    CASE stage = "minSize" -> a.minSize # UNDEFINED
      [] stage = "maxSize" -> a.maxSize # UNDEFINED
      [] stage = "modifiedAfter" -> a.modifiedAfter # UNDEFINED
      [] stage = "modifiedBefore" -> a.modifiedBefore # UNDEFINED
      [] stage = "storageClass" -> a.storageClass # "undefined"
      [] stage = "keyPattern" -> a.keyPattern # "undefined"

\* The entries that satisfy every supplied predicate, in manifest order.
SatisfyAll(files, a) ==
    SelectSeq(files, LAMBDA f :
        \A stage \in Stages : Supplied(stage, a) => StagePredicate(stage, a, f))

\* C24: whatever the order of the filter stages, once all of them have run
\* the entries left are those of the manifest that satisfy every supplied
\* predicate.
C24_FiltersCommute ==
    (fmPc = "filter" /\ fmDone = Stages)
        => fmResults = SatisfyAll(fmManifest.files, fmArgs)

\* C26: the entries filter_metadata returns are ordered by last-modified
\* time, most recent first.
C26_MostRecentFirst ==
    fmPc = "returned"
        => \A i, j \in 1..Len(fmResults) :
              i < j => fmResults[i].lastModified >= fmResults[j].lastModified

\* C28: handleRead never throws; whatever the input it returns a tool
\* result, and a result that reports a failure has isError set.
C28_ReadNeverThrows ==
    /\ rdPc # "thrown"
    /\ (rdPc = "returned" /\ rdResult.kind \notin {"listing", "empty", "content"})
          => rdResult.isError

\* C31: with a glob filter, at the moment ripgrep is spawned every file
\* that findFiles(glob, 1000) returned is resident in the Content Cache.
C31_WarmBeforeSpawn ==
    [][(grepPc # "Searching" /\ grepPc' = "Searching" /\ globFilter')
          => \A i \in 1..Len(matchingFiles') : Has(cache', matchingFiles'[i])]_vars

(***************************************************************************)
(* Claims about the Grep request and the files it reads.                   *)
(***************************************************************************)
\* The files the lines of a result come from.
KeysOf(lines) == {lines[i].key : i \in 1..Len(lines)}

\* C32: for a fixed bucket and fixed arguments a search returns the same
\* match lines whatever subset of the files was resident when it started;
\* so every search returns the lines of the search that starts with every
\* file of the bucket resident.
C32_ResultIndependentOfCache ==
    srPc = "done" =>
        KeysOf(srOutput) = KeysOf(FilterByGlob(RipgrepLines(srKeys, Range(srKeys)), srGlob))

\* C33: with a glob filter G, the lines a cached search returns are exactly
\* the lines of the search process whose file has a key that satisfies G.
C33_GlobFilterByKey ==
    (srPc = "done" /\ srEngine = "ripgrep" /\ srGlob # NoGlob)
        => srOutput = SelectSeq(srStdout, LAMBDA l : matchGlob(srGlob, l.key))

(***************************************************************************)
(* Claims about the remote-listing path of findFiles.                      *)
(***************************************************************************)
\* C34: on the listing path no request is sent once maxResults matches are
\* collected, every request asks for at most the page size, every request
\* after the first carries the token of the response before it, and the
\* pagination ends when a response carries no token.
C34_PaginationDiscipline ==
    /\ \A i \in 1..Len(listLog) :
          /\ maxResults # UNDEFINED => listLog[i].filesBefore < maxResults
          /\ listLog[i].MaxKeys <= MaxKeys
          /\ i = 1 => listLog[i].ContinuationToken = UNDEFINED
          /\ i > 1 => /\ listLog[i].ContinuationToken # UNDEFINED
                      /\ listLog[i].ContinuationToken = listLog[i - 1].NextContinuationToken
    /\ (listPc = "page" /\ listLog # <<>>)
          => listLog[Len(listLog)].NextContinuationToken # UNDEFINED
    /\ (listPc = "done" /\ (maxResults = UNDEFINED \/ Len(listed) < maxResults))
          => listLog[Len(listLog)].NextContinuationToken = UNDEFINED

(***************************************************************************)
(* Claims about handleGlob.                                                *)
(***************************************************************************)
\* C35: with limit L and offset O the glob tool returns the elements at
\* positions O to O+L-1 of the full ordered match list of the pattern.
C35_PageOfFullList ==
    (glPc = "returned" /\ maxResults # UNDEFINED /\ glOffset # UNDEFINED)
        => glFiles = SubSeq(Uncapped(manifest), glOffset + 1,
                            Min(glOffset + maxResults, Len(Uncapped(manifest))))

(***************************************************************************)
(* Claims about the termination of cacheFiles.                             *)
(***************************************************************************)
\* C36: a cacheFiles call that is waiting for a window eventually returns
\* its result map, for every list and every maxConcurrent, when every
\* download settles.
C36_CacheFilesReturns == (batchPc = "await") ~> (batchPc = "returned")

(***************************************************************************)
(* Claims about the downloads of overlapping requests.                     *)
(***************************************************************************)
\* The downloads in flight against the remote store.
RECURSIVE SumFlight(_)
SumFlight(rs) ==
    IF rs = {} THEN 0
    ELSE LET r == CHOOSE x \in rs : TRUE
         IN  wuFlight[r] + SumFlight(rs \ {r})

\* C37: across all overlapping requests, the downloads in flight never
\* exceed the window size of one cacheFiles call.
C37_GlobalDownloadBound == SumFlight(Requests) <= MaxWindow

(***************************************************************************)
(* Claims about directory reads on the manifest store.                     *)
(***************************************************************************)
\* C38: a read of a directory path reports 'No manifest available' only if
\* there is no manifest at the manifest source at that moment.
C38_NoManifestOnlyIfAbsent ==
    drOutcome = "noManifest" => ~(drSource.kind = "Json" /\ drSource.value.hasFiles)

(***************************************************************************)
(* Claims about the collapsing loop of a directory read.                   *)
(***************************************************************************)
\* The segments of a collapsed path, each with its '/'.
Segments(header) == [i \in 1..Len(Parts(header)) |-> Parts(header)[i] \o <<SLASH>>]

\* The directory reached from `start` after the first j segments.
RECURSIVE Descend(_, _, _)
Descend(start, segs, j) ==
    IF j = 0 THEN start ELSE Descend(start, segs, j - 1) \o segs[j]

\* The result lists the first directory of the chain of single-child
\* directories from `start` that does not have a single directory as its
\* only entry, and the header is the chain.
ListsEndOfChain(dirs, start, res) ==
    LET segs == Segments(res.header)
    IN  /\ Join(Parts(res.header)) \o (IF res.header = <<>> THEN <<>> ELSE <<SLASH>>)
              = res.header
        /\ \A j \in 1..Len(segs) :
              listDirectory(dirs, Descend(start, segs, j - 1)) = <<segs[j]>>
        /\ res.entries = listDirectory(dirs, Descend(start, segs, Len(segs)))
        /\ ~(Len(res.entries) = 1 /\ EndsWith(res.entries[1], <<SLASH>>))
        /\ res.kind = "empty" <=> res.entries = <<>>

\* C39: a read of a directory path of the bucket, with a manifest loaded,
\* ends with the listing of the end of the chain of single-child
\* directories and a header that names the collapsed segments in order.
C39_CollapseListsEndOfChain ==
    (rdPc # "call" /\ rdPath.given /\ PathEndsWithSlash(rdPath) /\ rdSchema.present
        /\ rdPath.scheme /\ rdPath.bucket = "bucket")
      => /\ rdPc = "returned"
         /\ ~rdResult.isError
         /\ ListsEndOfChain(buildFromManifest(rdSchema.files), rdPath.key, rdResult)

(***************************************************************************)
(* Claims about identifiers.                                               *)
(***************************************************************************)
\* URIs that name another bucket or have no key part.
ForeignUris ==
    {<<"s", "3", ":", "/", "/", "o", "/", "b">>,
     <<"s", "3", ":", "/", "/", "s", "/">>,
     <<"s", "3", ":", "/", "/", "s">>,
     <<"s", "3", ":", "/", "/", "/", "b">>}

\* C40: for every key k whose identifier findFiles has returned,
\* s3UriToKey(keyToS3Uri(k)) is k, for every configured prefix; and
\* s3UriToKey rejects a URI of another bucket or without a key part.
C40_IdentifierRoundTrip ==
    /\ \A i \in 1..Len(manifest) :
          (findPc \in {"loop", "done"} /\ i < fileIdx /\ IsMatch(manifest[i]))
             => /\ ~s3UriToKeyText(keyToS3Uri(manifest[i])).throws
                /\ s3UriToKeyText(keyToS3Uri(manifest[i])).key = manifest[i]
    /\ \A u \in ForeignUris : s3UriToKeyText(u).throws

====
